---- MODULE Spec2Model ----
(***************************************************************************)
(* Verification model of astrbot_plugin_qfarm.                             *)
(*                                                                         *)
(* Each component is a state machine over its own variables and has its    *)
(* own specification; a component's actions leave the other components'    *)
(* variables unchanged.                                                    *)
(*   SpecSession  services/protocol/session.py   GatewaySession            *)
(*   SpecLimiter  services/rate_limiter.py       RateLimiter, _RateLease   *)
(*   SpecLimiterFair  the same, with leases released and waiters resumed *)
(*   SpecStore    services/state_store.py        bind/unbind_account       *)
(*   SpecStart    services/runtime/runtime_manager.py  start_account       *)
(*   SpecLoad     services/state_store.py        the constructor (bindings)*)
(*   SpecFarm     services/runtime/account_runtime.py  _do_farm_operation  *)
(*   SpecPlant    services/runtime/account_runtime.py  _auto_plant         *)
(*   SpecFriend   services/domain/friend_service.py    do_friend_operation *)
(*   SpecSave     _save_json and _save_json_atomic                         *)
(*   SpecSched    services/runtime/account_runtime.py  the loops (fair)    *)
(*   SpecLock     services/runtime/account_runtime.py  the two locks       *)
(*   SpecStop     services/runtime/account_runtime.py  stop() and tasks    *)
(*   SpecStarts   services/runtime/runtime_manager.py  concurrent starts   *)
(*   SpecRace     the same, with stop_account and delete_account between  *)
(*   SpecAccept   the receive loop and the friend-application handler     *)
(*   SpecFert     services/runtime/account_runtime.py  plant, fertilize    *)
(*   SpecBind     services/command_router.py           bind, unbind        *)
(*   and the specifications of the manager, the runtime and the dispatcher *)
(***************************************************************************)
EXTENDS Integers, Sequences, FiniteSets, TLC

\* ------------------------------------------------------------- bounds
\* call() invocations on one GatewaySession object
MaxCalls == 2
\* successful socket connects of one GatewaySession object
MaxConn == 2

\* RateLimiter.acquire invocations
MaxReq == 3
\* RateLimiter(global_concurrency=...): permits of the global semaphore
GlobalConcurrency == 2
\* last tick of the monotonic clock
MaxTime == 1
MaxClock == 2
MaxStartCalls == 2

Calls == 1..MaxCalls
\* clientSeq values a Request can carry: every call allocates at most one
Seqs == 1..MaxCalls
NoCall == 0
NoFrame == [seq |-> 0, err |-> 0]

VARIABLES
    \* ---- GatewaySession
    ws,          \* self._ws: "none" | "open" (object, .closed false) | "closed" (object, .closed true)
    recv,        \* the receive task: "none" | "running" | "cancelling"
    clientSeq,   \* self._client_seq
    pending,     \* self._pending: clientSeq -> call (NoCall: no entry)
    sendLock,    \* self._send_lock: the call holding it, or NoCall
    conn,        \* number of sockets this object has opened; conn names the current one
    wire,        \* Request frames written, in order: [conn, seq]
    callPc,      \* position of each call(): "idle" | "lockwait" | "sending" | "waiting" | "returned"
    callSeq,     \* the clientSeq call() allocated (0: none)
    callConn,    \* the socket call() captured under the send lock (0: none)
    fut,         \* the call's future: "none" | "pending" | "result" | "remote_error" | "disconnected" | "cancelled"
    futBy,       \* [seq, err] of the Reply frame that completed the future (NoFrame: none)
    futSets,     \* number of times the future was completed
    callOut,     \* what call() returned or raised ("none" while running)
    stopPc,      \* stop(): "idle" | "awaitRecv" (inside _hard_close, awaiting the cancelled receive task)
    stopReturned,\* a stop() has finished and no start() has opened a socket since
    lateDiscard, \* clientSeq of the last Reply frame that arrived after its call had timed out (0: none)
    \* ---- RateLimiter
    serialized,  \* self.account_write_serialized
    now,         \* time.monotonic()
    nextRead,    \* self._next_read_ts: user -> time
    nextWrite,   \* self._next_write_ts: user -> time
    semUsed,     \* permits of self._global_sem that are taken
    acctLocked,  \* self._account_locks: account -> locked()
    reqPc,       \* each acquire(): "idle" | "waitSem" | "waitAcct" | "leased" | "released" | "rejected" | "cancelled"
    reqWrite,    \* its is_write
    reqAcct,     \* its account_id (NoAcct: None)
    leaseLock,   \* the lease's _account_lock is set
    reqUser      \* its user_id, stripped (NoUser: blank, or not made yet)

sessVars == <<ws, recv, clientSeq, pending, sendLock, conn, wire, callPc, callSeq,
              callConn, fut, futBy, futSets, callOut, stopPc, stopReturned, lateDiscard>>

limVars == <<serialized, now, nextRead, nextWrite, semUsed, acctLocked, reqPc, reqWrite,
             reqAcct, leaseLock, reqUser>>

\* QFarmStateStore: the bindings held in memory and the bindings file
VARIABLES owners, accountOwners, bindingsFile, clock, lastCall

storeVars == <<owners, accountOwners, bindingsFile, clock, lastCall>>

\* QFarmRuntimeManager.start_account for one account: the registry entry and
\* the status row of the account, and the call in progress
VARIABLES runtimes, status, accountExists, startCalls, startPc, attempt, last_error,
          outcomes, stopCalls, sleeps, delay, raised

mgrVars == <<runtimes, status, accountExists, startCalls, startPc, attempt, last_error,
             outcomes, stopCalls, sleeps, delay, raised>>

\* QFarmRuntimeManager.stop_account for that account
VARIABLES
    acctStopPc,    \* stop_account(): "idle" | "stopping" (awaiting runtime.stop()) | "returned" | "raised"
    stopFor,       \* its account_id_text
    stopAcctCalls, \* stop_account calls made
    leftBy,        \* registry entry and status row as the latest finished stop_account(a) left them
    againFrom      \* what that call started from, when it started where a stop_account(a) had left them

lifeVars == <<acctStopPc, stopFor, stopAcctCalls, leftBy, againFrom>>

\* QFarmRuntimeManager over all its accounts: what it persists and its registry
VARIABLES
    accounts,       \* self._accounts["accounts"]: the ids of the account records
    nextId,         \* self._accounts["nextId"]
    issued,         \* the ids upsert_account has handed out, in order
    registry,       \* self._runtimes: the ids that have a runtime, in insertion order
    alive,          \* ids whose runtime has running = True (its loops are scheduled)
    linkUp,         \* ids whose session has a live receive task
    rows,           \* self._runtime_data["status"]: id -> runtimeState ("none": no row)
    accountConfigs, \* self._settings["accountConfigs"]: id -> settings (NoConfig: no entry)
    revision,       \* self._settings["__revision"], counted from its value at load
    theme,          \* self._settings["ui"]["theme"]
    lastOp          \* the operation that ran last, its outcome, and the state it started from

fleetVars == <<accounts, nextId, issued, registry, alive, linkUp, rows, accountConfigs,
               revision, theme, lastOp>>

\* AccountRuntime: one runtime and its gateway session
VARIABLES
    running,       \* self.running
    loginReady,    \* self.connected and self.login_ready (set and cleared together)
    sessState,     \* the session: "none" (no socket) | "open" (socket and live receive task)
                   \*   | "stale" (the receive task has ended, the socket object is kept)
                   \*   | "closed" (as stale, and the socket object says it is closed)
    wildcard,      \* entries of the dispatcher's "*" list that are self._on_notify
    loops,         \* the heartbeat and scheduler tasks of self._tasks are running
    inviteTask,    \* self._invite_task: "none" | "running" | "done"
    inviteProcessed, \* self._invite_processed
    rtPc,          \* start(): "idle" | "connecting" | "login" | "bag" | "returned" | "raised"
    failedAt,      \* the step at which the last start() failed ("none": it did not)
    rtStarts,      \* start() calls made
    rtStopped      \* how the last stop() ended: "none" | "returned" | "cancelled"

rtVars == <<running, loginReady, sessState, wildcard, loops, inviteTask, inviteProcessed,
            rtPc, failedAt, rtStarts, rtStopped>>

\* NotifyDispatcher of one session, and the receive loop that feeds it
VARIABLES
    handlersByType,   \* self._handlers: message type -> list of handlers
    wildcardHandlers, \* self._wildcard_handlers
    socketQ,          \* Notify frames that have arrived and the receive loop has not read
    frames,           \* Notify frames that have arrived so far; a frame is named by its number
    emitPc,           \* the receive loop: "idle" (reading) | "calling" (in emit's for loop)
                      \*   | "awaiting" (awaiting a handler's coroutine) | "dead" (cancelled)
    emitEv,           \* the frame being dispatched (0: none yet)
    emitList,         \* emit's local list "handlers"
    emitIdx,          \* position of the for loop in it
    calls,            \* handler invocations so far, in order: [ev, handler, awaited]
    tablesAt,         \* the two handler lists as they were when emit read them for emitEv
    emitted           \* frames whose emit() has returned

ndVars == <<handlersByType, wildcardHandlers, socketQ, frames, emitPc, emitEv, emitList,
            emitIdx, calls, tablesAt, emitted>>

\* QFarmStateStore(data_dir): the bindings file found at construction
VARIABLES
    bindingsRaw,   \* what _load_json returned: [owners, accountOwners], each the entries
                   \*   of a JSON object in file order
    loadPc         \* "file" (before the constructor) | "loaded"

loadVars == <<bindingsRaw, loadPc>>

\* AccountRuntime._do_farm_operation("all") and _auto_plant
VARIABLES
    analyzed,     \* what analyze_lands returned: the land ids of each kind, as lists
    automation,   \* self.settings["automation"]: [sell, land_upgrade]
    plantEnv,     \* what the plant step meets: the shop's answer, the seed's goods id and
                  \*   price, the bag stock, user_state["gold"], and how its requests end
    farmPc,       \* _do_farm_operation: "idle" | "weed" | "bug" | "water" | "harvest" | "plant"
                  \*   | "upgrade" | "sell" | "returned" | "raised"
    farmLog,      \* the requests sent so far, in order: [req, arg, ok]
    harvest_ids,  \* the local harvest_ids
    plantArgs,    \* the arguments of the _auto_plant call (NoPlantCall: not called)
    plantOut,     \* what that call did (NoPlantOut: not called)
    sells         \* _auto_sell calls

farmVars == <<analyzed, automation, plantEnv, farmPc, farmLog, harvest_ids, plantArgs,
              plantOut, sells>>

VARIABLES
    friend_gid,        \* the friend a do_friend_operation call names
    friendOp,          \* its op_type, stripped and lowered
    friendLands,       \* what analyze_friend_lands finds: [targets, canPutBug, canPutWeed]
    operation_limits,  \* self._operation_limits: operation id -> row of the day's counters
    friendPc,          \* "idle" | "analyzed" | "mutate" | "leave" | "returned"
    friendLog,         \* the requests the call has sent, in order
    friendTargets,     \* targets, after the steal allowance has cut them
    probed,            \* what check_can_operate_remote returned, if it was called
    friendResult       \* the dict the call returns: [ok, count, message]

friendVars == <<friend_gid, friendOp, friendLands, operation_limits, friendPc, friendLog,
                friendTargets, probed, friendResult>>

VARIABLES
    disk,      \* the JSON files of the data directory: file -> what it holds
    tmpFile,   \* the ".tmp" neighbour of each file, if there is one
    savePc,    \* "idle" | "opened" | "dumping" | "written" | "stopped"
    saving,    \* the file a save is writing
    saves      \* saves begun

saveVars == <<disk, tmpFile, savePc, saving, saves>>

VARIABLES
    backoff,    \* _scheduler_loop: its local backoff
    schedPc,    \* _scheduler_loop: "top" | "backoff" (asleep for backoff) | "connecting"
                \*   | "login" | "failed" (asleep in "except Exception")
    gatewayUp,  \* the gateway accepts connections and answers
    outages,    \* times the gateway went down
    slept      \* the back-off slept since the last success, in order

schedVars == <<backoff, schedPc, gatewayUp, outages, slept>>

VARIABLES
    farm_locked,    \* self._farm_lock.locked()
    friend_locked,  \* self._friend_lock.locked()
    opPc            \* worker -> "idle" | "created" (a task not yet run) | "waitFarm"
                    \*   | "farm" (inside _do_farm_operation) | "afterFarm"
                    \*   | "waitFriend" | "friend" (inside the friend cycle)
                    \*   | "friendOp" (a manual do_friend_op)

lockVars == <<farm_locked, friend_locked, opPc>>

\* the tasks _on_notify creates with asyncio.create_task and keeps no reference to
VARIABLES
    pushTask,   \* do_farm_operation("all") after a LandsNotify: "none" | "waiting" (for
                \*   the reply of a request it sent) | "failing" (its next request is
                \*   refused: not connected) | "done"
    sweepTask   \* check_and_claim_tasks() after a TaskInfoNotify: the same

bgVars == <<pushTask, sweepTask>>

\* QFarmRuntimeManager: start_account calls for one account running concurrently
\* with each other and with stop_account, delete_account and stop()
VARIABLES
    start_lock,     \* self._start_locks[a]: the call that holds it, 0 when free
    starterPc,         \* start_account call -> "idle" | "waitLock" | "starting" (awaiting
                    \*   runtime.start()) | "sleeping" | "returned" | "raised" | "cancelled"
    callRt,         \* the runtime the call constructed last (0: none)
    callAttempt,    \* its loop variable attempt
    callBuilt,      \* runtimes the call has constructed
    foundEntry,     \* the call found the account in the registry
    entry,          \* self._runtimes.get(a): a runtime, 0 when absent
    instances,      \* runtime -> "none" (not constructed) | "login" | "bag" (start() waits
                    \*   for the login reply, the bag reply) | "started" | "halted"
                    \*   | "haltedBag" (stop() ran while start() waited) | "husk" (start()
                    \*   returned after that) | "stopped"
    hasRecord,      \* the account has a record in self._accounts
    statusRow,      \* runtimeState of the account's status row ("none": no row)
    constructed,    \* AccountRuntime objects constructed
    halts,          \* stop_account, delete_account and stop() calls made
    deletedOk       \* a delete_account(a) has returned

raceVars == <<start_lock, starterPc, callRt, callAttempt, callBuilt, foundEntry, entry,
              instances, hasRecord, statusRow, constructed, halts, deletedOk>>

\* the receive loop of one session and the runtime's handler for
\* FriendApplicationReceivedNotify
VARIABLES
    inbox,        \* frames the gateway has sent and the receive loop has not read yet
    recvPc,       \* _recv_loop: "reading" | "inHandler" (inside notify_dispatcher.emit,
                  \*   awaiting the handler)
    acceptCall,   \* the AcceptFriends call: "none" | "waiting" | "replied" | "timedOut"
    replySent,    \* the gateway has sent the reply to AcceptFriends
    handled,      \* frames _handle_binary has processed
    arrived       \* frames the gateway has sent

acceptVars == <<inbox, recvPc, acceptCall, replySent, handled, arrived>>

\* the end of _auto_plant: farm.plant(seed_id, lands_to_plant) and the fertilizing
VARIABLES
    lands_to_plant,  \* the local lands_to_plant at line 593
    plantAnswers,    \* land -> the gateway accepts the Plant request for it
    fertilizer,      \* automation "fertilizer": "normal" | "organic" | "both" | "none"
    fertPc,          \* "idle" | "planted" | "normalDone" | "returned"
    plantedCount,    \* the local planted: what farm.plant returned
    plantSent,       \* the Plant requests sent, in order: the land of each
    fertSent         \* the Fertilize requests sent, in order: [land, fertilizer_id]

fertVars == <<lands_to_plant, plantAnswers, fertilizer, fertPc, plantedCount, plantSent,
              fertSent>>

\* the bindings of the users and the accounts they resolve to: the bindings of
\* QFarmStateStore, the account records and the registry of the manager
VARIABLES
    bindOwners,         \* owners: user -> the account id of the binding
    bindAccountOwners,  \* accountOwners: account id -> user
    bindAccounts,       \* account id -> [code, updatedAt] of the record
    bindNextId,         \* data["nextId"]
    bindRuntimes,       \* the ids that have a registry entry
    bindPc,             \* user -> "idle" | "upserted": the bind waits in upsert_account
    before_ids,         \* user -> the ids of before_map of the bind in progress
    existing_id,        \* user -> existing_id of the bind in progress
    bindClock,          \* time.time()
    operated            \* user -> whose login code the account of the last command has

bindVars == <<bindOwners, bindAccountOwners, bindAccounts, bindNextId, bindRuntimes,
              bindPc, before_ids, existing_id, bindClock, operated>>

vars == <<sessVars, limVars, storeVars, mgrVars, lifeVars, fleetVars, rtVars, ndVars,
          loadVars, farmVars, friendVars, saveVars, schedVars, lockVars, bgVars, raceVars,
          acceptVars, fertVars, bindVars>>

\* what the actions of one component leave alone
notSessVars == <<limVars, storeVars, mgrVars, lifeVars, fleetVars, rtVars, ndVars,
                 loadVars, farmVars, friendVars, saveVars, schedVars, lockVars, bgVars,
                 raceVars, acceptVars, fertVars, bindVars>>
notLimVars == <<sessVars, storeVars, mgrVars, lifeVars, fleetVars, rtVars, ndVars,
                loadVars, farmVars, friendVars, saveVars, schedVars, lockVars, bgVars,
                raceVars, acceptVars, fertVars, bindVars>>
notStoreVars == <<sessVars, limVars, mgrVars, lifeVars, fleetVars, rtVars, ndVars,
                  loadVars, farmVars, friendVars, saveVars, schedVars, lockVars, bgVars,
                  raceVars, acceptVars, fertVars, bindVars>>
notMgrVars == <<sessVars, limVars, storeVars, lifeVars, fleetVars, rtVars, ndVars,
                loadVars, farmVars, friendVars, saveVars, schedVars, lockVars, bgVars,
                raceVars, acceptVars, fertVars, bindVars>>
notLifeVars == <<sessVars, limVars, storeVars, fleetVars, rtVars, ndVars, loadVars,
                 farmVars, friendVars, saveVars, schedVars, lockVars, bgVars, raceVars,
                 acceptVars, fertVars, bindVars>>
notFleetVars == <<sessVars, limVars, storeVars, mgrVars, lifeVars, rtVars, ndVars,
                  loadVars, farmVars, friendVars, saveVars, schedVars, lockVars, bgVars,
                  raceVars, acceptVars, fertVars, bindVars>>
notRtVars == <<sessVars, limVars, storeVars, mgrVars, lifeVars, fleetVars, ndVars,
               loadVars, farmVars, friendVars, saveVars, schedVars, lockVars, bgVars,
               raceVars, acceptVars, fertVars, bindVars>>
notNdVars == <<sessVars, limVars, storeVars, mgrVars, lifeVars, fleetVars, rtVars,
               loadVars, farmVars, friendVars, saveVars, schedVars, lockVars, bgVars,
               raceVars, acceptVars, fertVars, bindVars>>
\* the constructor of the store writes the store's variables
notLoadVars == <<sessVars, limVars, mgrVars, lifeVars, fleetVars, rtVars, ndVars, farmVars,
                 friendVars, saveVars, schedVars, lockVars, bgVars, raceVars, acceptVars,
                 fertVars, bindVars>>
notFarmVars == <<sessVars, limVars, storeVars, mgrVars, lifeVars, fleetVars, rtVars,
                 ndVars, loadVars, friendVars, saveVars, schedVars, lockVars, bgVars,
                 raceVars, acceptVars, fertVars, bindVars>>
notFriendVars == <<sessVars, limVars, storeVars, mgrVars, lifeVars, fleetVars, rtVars,
                   ndVars, loadVars, farmVars, saveVars, schedVars, lockVars, bgVars,
                   raceVars, acceptVars, fertVars, bindVars>>
notSaveVars == <<sessVars, limVars, storeVars, mgrVars, lifeVars, fleetVars, rtVars,
                 ndVars, loadVars, farmVars, friendVars, schedVars, lockVars, bgVars,
                 raceVars, acceptVars, fertVars, bindVars>>
\* the scheduler acts on the runtime's variables too
notSchedVars == <<sessVars, limVars, storeVars, mgrVars, lifeVars, fleetVars, ndVars,
                  loadVars, farmVars, friendVars, saveVars, lockVars, bgVars, raceVars,
                  acceptVars, fertVars, bindVars>>
notLockVars == <<sessVars, limVars, storeVars, mgrVars, lifeVars, fleetVars, rtVars,
                 ndVars, loadVars, farmVars, friendVars, saveVars, schedVars, bgVars,
                 raceVars, acceptVars, fertVars, bindVars>>
notBgVars == <<sessVars, limVars, storeVars, mgrVars, lifeVars, fleetVars, rtVars, ndVars,
               loadVars, farmVars, friendVars, saveVars, schedVars, lockVars, raceVars,
               acceptVars, fertVars, bindVars>>
notRaceVars == <<sessVars, limVars, storeVars, mgrVars, lifeVars, fleetVars, rtVars,
                 ndVars, loadVars, farmVars, friendVars, saveVars, schedVars, lockVars,
                 bgVars, acceptVars, fertVars, bindVars>>
notAcceptVars == <<sessVars, limVars, storeVars, mgrVars, lifeVars, fleetVars, rtVars,
                   ndVars, loadVars, farmVars, friendVars, saveVars, schedVars, lockVars,
                   bgVars, raceVars, fertVars, bindVars>>
notFertVars == <<sessVars, limVars, storeVars, mgrVars, lifeVars, fleetVars, rtVars,
                 ndVars, loadVars, farmVars, friendVars, saveVars, schedVars, lockVars,
                 bgVars, raceVars, acceptVars, bindVars>>
notBindVars == <<sessVars, limVars, storeVars, mgrVars, lifeVars, fleetVars, rtVars,
                 ndVars, loadVars, farmVars, friendVars, saveVars, schedVars, lockVars,
                 bgVars, raceVars, acceptVars, fertVars>>

\* ===================================================== GatewaySession

EmptyPending == [s \in Seqs |-> NoCall]

\* GatewaySession.connected
Connected == ws = "open"

SessInit ==
    /\ ws = "none"
    /\ recv = "none"
    /\ clientSeq = 1
    /\ pending = EmptyPending
    /\ sendLock = NoCall
    /\ conn = 0
    /\ wire = <<>>
    /\ callPc = [c \in Calls |-> "idle"]
    /\ callSeq = [c \in Calls |-> 0]
    /\ callConn = [c \in Calls |-> 0]
    /\ fut = [c \in Calls |-> "none"]
    /\ futBy = [c \in Calls |-> NoFrame]
    /\ futSets = [c \in Calls |-> 0]
    /\ callOut = [c \in Calls |-> "none"]
    /\ stopPc = "idle"
    /\ stopReturned = FALSE
    /\ lateDiscard = 0

\* _fail_all_pending: the map is cleared, every future in it that is not done
\* gets the "websocket disconnected" exception.
FailedFutures(p, f) ==
    [c \in Calls |->
        IF (\E s \in Seqs : p[s] = c) /\ f[c] = "pending" THEN "disconnected" ELSE f[c]]

FailAllPending ==
    /\ fut' = FailedFutures(pending, fut)
    /\ pending' = EmptyPending

\* start(code): a no-op while connected; otherwise the counters are reset, the
\* pending map is cleared (its futures are left as they are) and the socket is
\* opened. A failed connect runs _hard_close and raises.
SessStart ==
    /\ UNCHANGED notSessVars
    /\ conn < MaxConn
    /\ \/ /\ Connected
          /\ UNCHANGED <<ws, recv, clientSeq, pending, conn, stopReturned, lateDiscard>>
       \/ /\ ~Connected
          /\ clientSeq' = 1
          /\ pending' = EmptyPending
          /\ \/ /\ ws' = "open"
                /\ recv' = "running"
                /\ conn' = conn + 1
                /\ stopReturned' = FALSE
                /\ lateDiscard' = 0
             \/ /\ ws' = "none"
                /\ UNCHANGED <<recv, conn, stopReturned, lateDiscard>>
    /\ UNCHANGED <<sendLock, wire, callPc, callSeq, callConn, fut, futBy, futSets,
                   callOut, stopPc>>

\* self._client_seq += 1
NextClientSeqStuck(s) == s

NextClientSeq(s) == s + 1

\* call(), the part under the send lock up to the await of send_bytes: allocate
\* the seq, register the future, and give up when the socket is gone.
LockedStep(c) ==
    LET seq == clientSeq IN
    /\ clientSeq' = NextClientSeq(seq)
    /\ callSeq' = [callSeq EXCEPT ![c] = seq]
    /\ IF ws = "none" \/ ws = "closed"
       THEN /\ pending' = [pending EXCEPT ![seq] = NoCall]
            /\ fut' = [fut EXCEPT ![c] = "none"]
            /\ callOut' = [callOut EXCEPT ![c] = "ws_closed"]
            /\ callPc' = [callPc EXCEPT ![c] = "returned"]
            /\ UNCHANGED <<sendLock, callConn>>
       ELSE /\ pending' = [pending EXCEPT ![seq] = c]
            /\ fut' = [fut EXCEPT ![c] = "pending"]
            /\ sendLock' = c
            /\ callConn' = [callConn EXCEPT ![c] = conn]
            /\ callPc' = [callPc EXCEPT ![c] = "sending"]
            /\ UNCHANGED callOut

\* call(): the connected check, then the send lock; a free lock is taken
\* without suspending. Calls are numbered in the order they are made.
CallEnter(c) ==
    /\ UNCHANGED notSessVars
    /\ callPc[c] = "idle"
    /\ c > 1 => callPc[c - 1] # "idle"
    /\ IF ~Connected
       THEN /\ callOut' = [callOut EXCEPT ![c] = "not_connected"]
            /\ callPc' = [callPc EXCEPT ![c] = "returned"]
            /\ UNCHANGED <<clientSeq, pending, sendLock, callSeq, callConn, fut>>
       ELSE IF sendLock # NoCall
       THEN /\ callPc' = [callPc EXCEPT ![c] = "lockwait"]
            /\ UNCHANGED <<clientSeq, pending, sendLock, callSeq, callConn, fut, callOut>>
       ELSE LockedStep(c)
    /\ UNCHANGED <<ws, recv, conn, wire, futBy, futSets, stopPc, stopReturned, lateDiscard>>

\* call(): a caller that waited for the send lock gets it.
CallLock(c) ==
    /\ UNCHANGED notSessVars
    /\ callPc[c] = "lockwait"
    /\ sendLock = NoCall
    /\ LockedStep(c)
    /\ UNCHANGED <<ws, recv, conn, wire, futBy, futSets, stopPc, stopReturned, lateDiscard>>

\* call(): ws.send_bytes(payload) on the socket captured under the lock
\* returns (the frame is on the wire when that socket is still the open one)
\* or raises; either way the send lock is released. A raise leaves the
\* pending entry in place.
CallSend(c) ==
    /\ UNCHANGED notSessVars
    /\ callPc[c] = "sending"
    /\ sendLock' = NoCall
    /\ \/ /\ ws = "open" /\ callConn[c] = conn
          /\ wire' = Append(wire, [conn |-> callConn[c], seq |-> callSeq[c]])
          /\ callPc' = [callPc EXCEPT ![c] = "waiting"]
          /\ UNCHANGED callOut
       \/ /\ ~(ws = "open" /\ callConn[c] = conn)
          /\ callPc' = [callPc EXCEPT ![c] = "waiting"]
          /\ UNCHANGED <<wire, callOut>>
       \/ /\ callOut' = [callOut EXCEPT ![c] = "send_failed"]
          /\ callPc' = [callPc EXCEPT ![c] = "returned"]
          /\ UNCHANGED wire
    /\ UNCHANGED <<ws, recv, clientSeq, pending, conn, callSeq, callConn, fut, futBy,
                   futSets, stopPc, stopReturned, lateDiscard>>

\* call(): wait_for(fut) returns the result or raises the future's exception.
CallDone(c) ==
    /\ UNCHANGED notSessVars
    /\ callPc[c] = "waiting"
    /\ fut[c] \in {"result", "remote_error", "disconnected"}
    /\ callOut' = [callOut EXCEPT ![c] =
            CASE fut[c] = "result" -> "reply"
              [] fut[c] = "remote_error" -> "remote_error"
              [] OTHER -> "disconnected"]
    /\ callPc' = [callPc EXCEPT ![c] = "returned"]
    /\ UNCHANGED <<ws, recv, clientSeq, pending, sendLock, conn, wire, callSeq, callConn,
                   fut, futBy, futSets, stopPc, stopReturned, lateDiscard>>

\* self._pending.pop(seq, None) of the timeout branch
PopPendingKeep(p, seq) == p

PopPending(p, seq) == [p EXCEPT ![seq] = NoCall]

\* call(): wait_for times out; the future is cancelled and the entry of this
\* call's seq is popped.
CallTimeout(c) ==
    /\ UNCHANGED notSessVars
    /\ callPc[c] = "waiting"
    /\ fut[c] = "pending"
    /\ fut' = [fut EXCEPT ![c] = "cancelled"]
    /\ pending' = PopPending(pending, callSeq[c])
    /\ callOut' = [callOut EXCEPT ![c] = "timeout"]
    /\ callPc' = [callPc EXCEPT ![c] = "returned"]
    /\ UNCHANGED <<ws, recv, clientSeq, sendLock, conn, wire, callSeq, callConn, futBy,
                   futSets, stopPc, stopReturned, lateDiscard>>

\* fut = self._pending.pop(seq, None) of _handle_binary
ReplyTargetOther(p, seq) ==
    IF \E s \in Seqs : p[s] # NoCall
    THEN p[CHOOSE s \in Seqs : p[s] # NoCall /\ \A t \in Seqs : p[t] # NoCall => s <= t]
    ELSE NoCall

ReplyTarget(p, seq) == p[seq]

\* A call of socket k that allocated seq and ended by its timeout.
TimedOutOn(k, seq) ==
    \E c \in Calls : callConn[c] = k /\ callSeq[c] = seq /\ callOut[c] = "timeout"

\* _handle_binary: set_exception when error_code != 0, set_result otherwise
ReplyOutcome(err) == IF err # 0 THEN "remote_error" ELSE "result"

\* _recv_loop -> _handle_binary on a Reply frame (message_type 2) carrying
\* clientSeq seq and errorCode err.
RecvReply(seq, err) ==
    /\ UNCHANGED notSessVars
    /\ recv = "running"
    /\ ws = "open"
    /\ pending' = [pending EXCEPT ![seq] = NoCall]
    /\ LET c == ReplyTarget(pending, seq) IN
       IF c = NoCall \/ fut[c] # "pending"
       THEN /\ lateDiscard' = IF TimedOutOn(conn, seq) THEN seq ELSE lateDiscard
            /\ UNCHANGED <<fut, futBy, futSets>>
       ELSE /\ fut' = [fut EXCEPT ![c] = ReplyOutcome(err)]
            /\ futBy' = [futBy EXCEPT ![c] = [seq |-> seq, err |-> err]]
            /\ futSets' = [futSets EXCEPT ![c] = @ + 1]
            /\ UNCHANGED lateDiscard
    /\ UNCHANGED <<ws, recv, clientSeq, sendLock, conn, wire, callPc, callSeq, callConn,
                   callOut, stopPc, stopReturned>>

\* _recv_loop leaves the loop on its own: a CLOSE frame (autoclose is off, the
\* socket object stays not closed), an end of stream or transport error (the
\* socket object is closed), or a binary frame decode_gate_message cannot
\* parse (caught by the loop's except). The finally block fails all pending
\* calls; its _hard_close then cancels and awaits the task it runs in, so it
\* ends after self._recv_task = None, with self._ws as it was.
RecvExit(kind) ==
    /\ UNCHANGED notSessVars
    /\ recv = "running"
    /\ ws = "open"
    /\ FailAllPending
    /\ recv' = "none"
    /\ ws' = IF kind = "eof" THEN "closed" ELSE ws
    /\ UNCHANGED <<clientSeq, sendLock, conn, wire, callPc, callSeq, callConn, futBy,
                   futSets, callOut, stopPc, stopReturned, lateDiscard>>

\* stop() -> _hard_close, up to its first suspension. A live receive task is
\* cancelled and awaited; with none, the socket and the HTTP client are
\* closed, self._ws becomes None and stop() returns.
StopBegin ==
    /\ UNCHANGED notSessVars
    /\ stopPc = "idle"
    /\ IF recv = "running"
       THEN /\ recv' = "cancelling"
            /\ stopPc' = "awaitRecv"
            /\ UNCHANGED <<ws, stopReturned>>
       ELSE /\ ws' = "none"
            /\ stopReturned' = TRUE
            /\ UNCHANGED <<recv, stopPc>>
    /\ UNCHANGED <<clientSeq, pending, sendLock, conn, wire, callPc, callSeq, callConn,
                   fut, futBy, futSets, callOut, lateDiscard>>

\* The cancelled receive task runs its finally block: _fail_all_pending, then
\* _hard_close (self._recv_task is None by now) closes the socket and the HTTP
\* client and sets self._ws = None.
RecvCancelled ==
    /\ UNCHANGED notSessVars
    /\ recv = "cancelling"
    /\ FailAllPending
    /\ recv' = "none"
    /\ ws' = "none"
    /\ UNCHANGED <<clientSeq, sendLock, conn, wire, callPc, callSeq, callConn, futBy,
                   futSets, callOut, stopPc, stopReturned, lateDiscard>>

\* stop(): "await recv_task" raises CancelledError, which "except Exception"
\* does not catch: stop() ends by raising it.
StopEnd ==
    /\ UNCHANGED notSessVars
    /\ stopPc = "awaitRecv"
    /\ recv = "none"
    /\ stopPc' = "idle"
    /\ stopReturned' = TRUE
    /\ UNCHANGED <<ws, recv, clientSeq, pending, sendLock, conn, wire, callPc, callSeq,
                   callConn, fut, futBy, futSets, callOut, lateDiscard>>

SessNext ==
    \/ SessStart
    \/ \E c \in Calls : CallEnter(c)
    \/ \E c \in Calls : CallLock(c)
    \/ \E c \in Calls : CallSend(c)
    \/ \E c \in Calls : CallDone(c)
    \/ \E c \in Calls : CallTimeout(c)
    \/ \E s \in Seqs, e \in {0, 1} : RecvReply(s, e)
    \/ \E k \in {"close_frame", "eof", "bad_frame"} : RecvExit(k)
    \/ StopBegin
    \/ RecvCancelled
    \/ StopEnd


\* ------------------------------------------------ GatewaySession claims

\* C1: after a stop() has finished, the pending map is empty and no call that
\* was issued before it is still blocked on a future nobody has completed.
C1_StopDrainsPending ==
    stopReturned =>
        /\ pending = EmptyPending
        /\ \A c \in Calls : callPc[c] = "waiting" => fut[c] # "pending"

\* C2 as stated: over the whole life of one GatewaySession object, a Request
\* written later carries a strictly greater clientSeq than every Request
\* written earlier.
C2_SeqIncreasingPerSession ==
    \A i, j \in 1..Len(wire) : i < j => wire[i].seq < wire[j].seq

\* C2, amended: among the Requests written to one socket of a GatewaySession
\* (from a start() that opens it until the next), a Request written later
\* carries a strictly greater clientSeq, so no two of them share one.
C2_SeqIncreasingPerSocket ==
    \A i, j \in 1..Len(wire) :
        (i < j /\ wire[i].conn = wire[j].conn) => wire[i].seq < wire[j].seq

\* Two calls whose Requests are both on the wire of the current socket and
\* which are both still in progress.
C2_ConcurrentCallsWritten ==
    \E c, d \in Calls :
        /\ c # d
        /\ callPc[c] = "waiting" /\ callPc[d] = "waiting"
        /\ callConn[c] = conn /\ callConn[d] = conn
        /\ \E i, j \in 1..Len(wire) :
              /\ i < j
              /\ wire[i] = [conn |-> conn, seq |-> callSeq[c]]
              /\ wire[j] = [conn |-> conn, seq |-> callSeq[d]]

\* C3: a future completed by a Reply frame was completed by the frame whose
\* clientSeq is the one its call allocated, with a result when errorCode = 0
\* and a remote error otherwise, and no future is completed more than once.
C3_ReplyCorrelation ==
    \A c \in Calls :
        /\ futSets[c] <= 1
        /\ (futBy[c] # NoFrame) <=> (futSets[c] = 1)
        /\ futSets[c] = 1 =>
              /\ futBy[c].seq = callSeq[c]
              /\ fut[c] = IF futBy[c].err = 0 THEN "result" ELSE "remote_error"
        /\ fut[c] \in {"result", "remote_error"} => futSets[c] = 1

\* The reply to a later Request has completed its call while an earlier
\* Request of the same socket is still waiting for its own.
C3_RepliesOutOfOrder ==
    \E c, d \in Calls :
        /\ callConn[c] = conn /\ callConn[d] = conn
        /\ callSeq[c] < callSeq[d]
        /\ callPc[c] = "waiting" /\ fut[c] = "pending"
        /\ fut[d] = "result" /\ futBy[d].seq = callSeq[d]

\* C4: a call that ended by its timeout has no entry in the pending map, and
\* a Reply frame whose clientSeq has no entry in the map (its call timed out,
\* or a disconnect drained the map) completes no future and changes no call.
C4_TimedOutHasNoEntry ==
    \A c \in Calls : callOut[c] = "timeout" => \A s \in Seqs : pending[s] # c

C4_TimeoutAndLateReply ==
    /\ []C4_TimedOutHasNoEntry
    /\ [][\A s \in Seqs, e \in {0, 1} :
            (RecvReply(s, e) /\ pending[s] = NoCall) =>
                (fut' = fut /\ futBy' = futBy /\ callOut' = callOut /\ callPc' = callPc)]_vars

\* A Reply frame arrived for the clientSeq of a call of the current socket
\* after that call had timed out.
C4_LateReplyArrived ==
    /\ lateDiscard # 0
    /\ \E c \in Calls :
          callOut[c] = "timeout" /\ callSeq[c] = lateDiscard /\ callConn[c] = conn


\* C38: the pending map holds entries only for calls that are still
\* waiting: a call() that has returned or raised, for whatever reason, has
\* no entry in the map.
C38_PendingOnlyWaitingCalls ==
    \A c \in Calls : callPc[c] = "returned" => \A s \in Seqs : pending[s] # c


\* C21: a binary frame that cannot be decoded does not end the receive
\* loop and fails no pending call: when the loop reads such a frame the
\* receive task is still running afterwards and every future and every
\* entry of the pending table is as before.
C21_BadFrameIsSkipped ==
    [][RecvExit("bad_frame") => recv' = "running" /\ fut' = fut /\ pending' = pending]_vars

\* ======================================================== RateLimiter

Reqs == 1..MaxReq
LimUsers == {"u1", "u2"}
LimAccounts == {"acc-1", "acc-2"}
\* a user id that is blank once stripped; an account id that is None or blank
NoUser == ""
NoAcct == "none"

\* RateLimiter(read_cooldown_sec=1.0, write_cooldown_sec=2.0)
ReadCooldown == 1
WriteCooldown == 2

LimInit0 ==
    /\ now = 0
    /\ nextRead = [u \in LimUsers |-> 0]
    /\ nextWrite = [u \in LimUsers |-> 0]
    /\ semUsed = 0
    /\ acctLocked = [a \in LimAccounts |-> FALSE]
    /\ reqPc = [r \in Reqs |-> "idle"]
    /\ reqWrite = [r \in Reqs |-> FALSE]
    /\ reqAcct = [r \in Reqs |-> NoAcct]
    /\ leaseLock = [r \in Reqs |-> FALSE]
    /\ reqUser = [r \in Reqs |-> NoUser]

LimInit == serialized \in BOOLEAN /\ LimInit0

LimQuiet == serialized = TRUE /\ LimInit0

\* time.monotonic() advances
LimTick ==
    /\ UNCHANGED notLimVars
    /\ now < MaxTime
    /\ now' = now + 1
    /\ UNCHANGED <<serialized, nextRead, nextWrite, semUsed, acctLocked, reqPc, reqWrite,
                   reqAcct, leaseLock, reqUser>>

\* "if is_write and self.account_write_serialized and account_id is not None",
\* then "if aid"
NeedsAccountLockNever(w, a) == FALSE

NeedsAccountLock(w, a) == w /\ serialized /\ a # NoAcct

\* acquire() once it holds a permit: take the account lock at once when it is
\* free and nobody waits for it, and return the lease; otherwise wait for it.
AfterPermit(r, w, a) ==
    IF NeedsAccountLock(w, a)
    THEN IF ~acctLocked[a] /\ ~\E q \in Reqs : reqPc[q] = "waitAcct" /\ reqAcct[q] = a
         THEN /\ acctLocked' = [acctLocked EXCEPT ![a] = TRUE]
              /\ leaseLock' = [leaseLock EXCEPT ![r] = TRUE]
              /\ reqPc' = [reqPc EXCEPT ![r] = "leased"]
         ELSE /\ reqPc' = [reqPc EXCEPT ![r] = "waitAcct"]
              /\ UNCHANGED <<acctLocked, leaseLock>>
    ELSE /\ reqPc' = [reqPc EXCEPT ![r] = "leased"]
         /\ UNCHANGED <<acctLocked, leaseLock>>

\* "if next_ts > now: raise RateLimitError"
CoolingDownOrDue(next_ts) == next_ts >= now

CoolingDown(next_ts) == next_ts > now

\* acquire(user_id, is_write, account_id) up to its first suspension: a blank
\* user id is refused; then the cool-down check and update under the state lock, then the global
\* semaphore (taken at once when a permit is free and nobody waits).
\* Acquires are numbered in the order they are made; the account of a read
\* is never looked at and is not kept.
AcquireBegin(r, u, w, a) ==
    /\ UNCHANGED notLimVars
    /\ reqPc[r] = "idle"
    /\ r > 1 => reqPc[r - 1] # "idle"
    /\ LET next_ts == IF u = NoUser THEN 0 ELSE IF w THEN nextWrite[u] ELSE nextRead[u]
           cooldown == IF w THEN WriteCooldown ELSE ReadCooldown
       IN
       IF u = NoUser \/ CoolingDown(next_ts)
       THEN /\ reqPc' = [reqPc EXCEPT ![r] = "rejected"]
            /\ UNCHANGED <<nextRead, nextWrite, semUsed, acctLocked, leaseLock, reqWrite,
                           reqAcct>>
       ELSE /\ reqWrite' = [reqWrite EXCEPT ![r] = w]
            /\ reqAcct' = [reqAcct EXCEPT ![r] = IF w THEN a ELSE NoAcct]
            /\ nextWrite' = IF w THEN [nextWrite EXCEPT ![u] = now + cooldown] ELSE nextWrite
            /\ nextRead' = IF w THEN nextRead ELSE [nextRead EXCEPT ![u] = now + cooldown]
            /\ IF semUsed < GlobalConcurrency /\ ~\E q \in Reqs : reqPc[q] = "waitSem"
               THEN /\ semUsed' = semUsed + 1
                    /\ AfterPermit(r, w, IF w THEN a ELSE NoAcct)
               ELSE /\ reqPc' = [reqPc EXCEPT ![r] = "waitSem"]
                    /\ UNCHANGED <<semUsed, acctLocked, leaseLock>>
    /\ reqUser' = [reqUser EXCEPT ![r] = u]
    /\ UNCHANGED <<serialized, now>>

\* acquire(): "await self._global_sem.acquire()" returns.
SemGranted(r) ==
    /\ UNCHANGED notLimVars
    /\ reqPc[r] = "waitSem"
    /\ semUsed < GlobalConcurrency
    /\ semUsed' = semUsed + 1
    /\ AfterPermit(r, reqWrite[r], reqAcct[r])
    /\ UNCHANGED <<serialized, now, nextRead, nextWrite, reqWrite, reqAcct, reqUser>>

\* acquire(): "await account_lock.acquire()" returns and the lease is returned.
AcctGranted(r) ==
    /\ UNCHANGED notLimVars
    /\ reqPc[r] = "waitAcct"
    /\ ~acctLocked[reqAcct[r]]
    /\ acctLocked' = [acctLocked EXCEPT ![reqAcct[r]] = TRUE]
    /\ leaseLock' = [leaseLock EXCEPT ![r] = TRUE]
    /\ reqPc' = [reqPc EXCEPT ![r] = "leased"]
    /\ UNCHANGED <<serialized, now, nextRead, nextWrite, semUsed, reqWrite, reqAcct,
                   reqUser>>

\* the except branch of acquire(): "if acquired_global: self._global_sem.release()"
CancelReturnsPermitNever(r) == FALSE

CancelReturnsPermit(r) == reqPc[r] = "waitAcct"

\* The caller of acquire() is cancelled while it waits for the semaphore or
\* for the account lock.
AcquireCancelled(r) ==
    /\ UNCHANGED notLimVars
    /\ reqPc[r] \in {"waitSem", "waitAcct"}
    /\ semUsed' = IF CancelReturnsPermit(r) THEN semUsed - 1 ELSE semUsed
    /\ reqPc' = [reqPc EXCEPT ![r] = "cancelled"]
    /\ reqWrite' = [reqWrite EXCEPT ![r] = FALSE]
    /\ reqAcct' = [reqAcct EXCEPT ![r] = NoAcct]
    /\ UNCHANGED <<serialized, now, nextRead, nextWrite, acctLocked, leaseLock, reqUser>>

\* _RateLease.release: "if self._released: return"
AlreadyReleased(r) == reqPc[r] = "released"

\* _RateLease.release(), on a live lease or on one released before.
LeaseRelease(r) ==
    /\ UNCHANGED notLimVars
    /\ reqPc[r] \in {"leased", "released"}
    /\ IF AlreadyReleased(r)
       THEN UNCHANGED <<semUsed, acctLocked, reqPc, reqWrite>>
       ELSE /\ reqWrite' = [reqWrite EXCEPT ![r] = FALSE]
            /\ acctLocked' = IF leaseLock[r] /\ acctLocked[reqAcct[r]]
                             THEN [acctLocked EXCEPT ![reqAcct[r]] = FALSE]
                             ELSE acctLocked
            /\ semUsed' = semUsed - 1
            /\ reqPc' = [reqPc EXCEPT ![r] = "released"]
    /\ UNCHANGED <<serialized, now, nextRead, nextWrite, reqAcct, leaseLock, reqUser>>

LimNext ==
    \/ LimTick
    \/ \E r \in Reqs, u \in LimUsers \cup {NoUser}, w \in BOOLEAN,
          a \in LimAccounts \cup {NoAcct} :
          AcquireBegin(r, u, w, a)
    \/ \E r \in Reqs : SemGranted(r)
    \/ \E r \in Reqs : AcctGranted(r)
    \/ \E r \in Reqs : AcquireCancelled(r)
    \/ \E r \in Reqs : LeaseRelease(r)

\* --------------------------------------------------- RateLimiter claims

LiveLeases == {r \in Reqs : reqPc[r] = "leased"}

\* acquires that hold a global permit and still wait for the account mutex
HoldingPermit == {r \in Reqs : reqPc[r] = "waitAcct"}

\* C5: whatever became of each acquire (granted, rejected by the cool-down,
\* cancelled at the semaphore or at the account mutex, released once or more),
\* the permits in use are those of the live leases and of the acquires still
\* in progress behind the semaphore, so with no acquire in progress they equal
\* the live leases; and an account mutex is held only by a live lease.
C5_PermitConservation ==
    /\ semUsed = Cardinality(LiveLeases) + Cardinality(HoldingPermit)
    /\ semUsed \in 0..GlobalConcurrency
    /\ \A a \in LimAccounts :
          acctLocked[a] =>
              \E r \in LiveLeases : leaseLock[r] /\ reqAcct[r] = a

\* C5 witness: one acquire was rejected, one was cancelled while it waited for
\* the account mutex of a live lease, and that lease is the only permit in use.
C5_CancelledAtAccountLock ==
    /\ reqPc[1] = "leased" /\ leaseLock[1]
    /\ reqPc[2] = "rejected"
    /\ reqPc[3] = "cancelled"
    /\ semUsed = 1

\* the live write leases for account a
WriteLeases(a) == {r \in LiveLeases : reqWrite[r] /\ reqAcct[r] = a}

C6_OneWriteLeasePerAccount ==
    serialized => \A a \in LimAccounts : Cardinality(WriteLeases(a)) <= 1

\* C6: with accountWriteSerialized on, at most one write lease per account is
\* live at any time, and a write acquire that waits for the account's mutex
\* stops waiting (it is handed the lease) once the holder releases.
C6_WriteSerialized ==
    /\ []C6_OneWriteLeasePerAccount
    /\ \A r \in Reqs : (reqPc[r] = "waitAcct") ~> (reqPc[r] # "waitAcct")

\* C6 witness: a second write acquire waits while the first write lease for the
\* same account is live.
C6_SecondWriterWaits ==
    \E r, q \in Reqs :
        /\ serialized
        /\ reqPc[r] = "leased" /\ reqWrite[r]
        /\ reqPc[q] = "waitAcct" /\ reqWrite[q] /\ reqAcct[q] = reqAcct[r]

\* this step is acquire(u, w, ...) for a user id that is not blank
Acquires(u, w) == \E r \in Reqs, a \in LimAccounts \cup {NoAcct} : AcquireBegin(r, u, w, a)

\* the acquire of this step was refused
Refused == \E r \in Reqs : reqPc[r] = "idle" /\ reqPc'[r] = "rejected"

\* C22: per user and per class, an acquire made before the next-allowed
\* time of that user and class is refused, takes no permit and moves no
\* next-allowed time; any other acquire is accepted and sets the
\* next-allowed time of its user and class, and only that one, to now plus
\* the cool-down of the class.
C22_CooldownPerUserAndClass ==
    [][\A u \in LimUsers :
          /\ Acquires(u, FALSE) =>
                IF now < nextRead[u]
                THEN Refused /\ semUsed' = semUsed /\ nextRead' = nextRead
                     /\ nextWrite' = nextWrite
                ELSE ~Refused /\ nextRead' = [nextRead EXCEPT ![u] = now + ReadCooldown]
                     /\ nextWrite' = nextWrite
          /\ Acquires(u, TRUE) =>
                IF now < nextWrite[u]
                THEN Refused /\ semUsed' = semUsed /\ nextRead' = nextRead
                     /\ nextWrite' = nextWrite
                ELSE ~Refused /\ nextWrite' = [nextWrite EXCEPT ![u] = now + WriteCooldown]
                     /\ nextRead' = nextRead]_vars

\* one user has made three acquires: a write and a read were accepted, the
\* write at time 0, and the third was refused for the cool-down
C22_BothClassesThenRefused ==
    \E u \in LimUsers :
        /\ \A r \in Reqs : reqUser[r] = u /\ reqPc[r] # "idle"
        /\ Cardinality({r \in Reqs : reqPc[r] = "rejected"}) = 1
        /\ nextWrite[u] = WriteCooldown
        /\ nextRead[u] > 0

\* QFarmCommandRouter.handle is the caller of acquire: the command of
\* acquire r is being handled from "lease = await self.rate_limiter.acquire"
\* until "finally: lease.release()", with _dispatch in between
BeingHandled(r) == reqPc[r] \in {"waitSem", "waitAcct", "leased"}

\* C28: while a command of a user is being handled, a further command of
\* the same user is turned away at once: it moves no next-allowed time and
\* takes no global permit and no account lock.
C28_OneCommandPerUser ==
    [][\A u \in LimUsers, w \in BOOLEAN :
          (Acquires(u, w) /\ \E q \in Reqs : BeingHandled(q) /\ reqUser[q] = u)
             => /\ Refused
                /\ semUsed' = semUsed /\ acctLocked' = acctLocked
                /\ nextRead' = nextRead /\ nextWrite' = nextWrite]_vars

\* ==================================================== QFarmStateStore

StoreUsers == {"u1", "u2"}
StoreAccounts == {"acc-1", "acc-2", "acc-3"}
NoId == ""

\* An id as a caller passes it: its text, with or without surrounding blanks.
RawIds(ids) == [text : ids \cup {NoId}, padded : BOOLEAN]

\* _normalize_id: str(value or "").strip()
NormalizeId(v) == v.text

NoBinding == [account_id |-> NoId, updated_at |-> 0]
NoCallYet == [op |-> "none", uid |-> NoId, aid |-> NoId, old_aid |-> NoId, result |-> "none"]

\* The store of a fresh data directory: no binding, and the file just written.
StoreInit ==
    /\ owners = [u \in StoreUsers |-> NoBinding]
    /\ accountOwners = [a \in StoreAccounts |-> NoId]
    /\ bindingsFile = [owners |-> owners, accountOwners |-> accountOwners]
    /\ clock = 0
    /\ lastCall = NoCallYet

\* time.time() advances
StoreTick ==
    /\ UNCHANGED notStoreVars
    /\ clock < MaxClock
    /\ clock' = clock + 1
    /\ UNCHANGED <<owners, accountOwners, bindingsFile, lastCall>>

\* _save_json(self.owner_bindings_path, self._owner_bindings)
SaveBindings == bindingsFile' = [owners |-> owners', accountOwners |-> accountOwners']

\* bind_account: "if old_aid and old_aid != aid and account_owners.get(old_aid)
\* == uid: account_owners.pop(old_aid, None)"
WithoutOldAccountKept(ao, old_aid, aid, uid) == ao

WithoutOldAccount(ao, old_aid, aid, uid) ==
    IF old_aid # NoId /\ old_aid # aid /\ ao[old_aid] = uid
    THEN [ao EXCEPT ![old_aid] = NoId]
    ELSE ao

\* bind_account: "if existed_owner and existed_owner != uid: raise ValueError"
OwnedByOtherIgnored(ao, aid, uid) == FALSE

OwnedByOther(ao, aid, uid) == ao[aid] # NoId /\ ao[aid] # uid

\* bind_account(user_id, account_id)
BindAccount(user_id, account_id) ==
    /\ UNCHANGED notStoreVars
    /\ LET uid == NormalizeId(user_id)
           aid == NormalizeId(account_id)
       IN
       IF uid = NoId \/ aid = NoId
       THEN /\ lastCall' = [op |-> "bind", uid |-> uid, aid |-> aid, old_aid |-> NoId,
                            result |-> "ValueError"]
            /\ UNCHANGED <<owners, accountOwners, bindingsFile>>
       ELSE IF OwnedByOther(accountOwners, aid, uid)
       THEN /\ lastCall' = [op |-> "bind", uid |-> uid, aid |-> aid, old_aid |-> NoId,
                            result |-> "AlreadyBound"]
            /\ UNCHANGED <<owners, accountOwners, bindingsFile>>
       ELSE LET old_aid == owners[uid].account_id IN
            /\ owners' = [owners EXCEPT ![uid] = [account_id |-> aid, updated_at |-> clock]]
            /\ accountOwners' =
                  [WithoutOldAccount(accountOwners, old_aid, aid, uid) EXCEPT ![aid] = uid]
            /\ SaveBindings
            /\ lastCall' = [op |-> "bind", uid |-> uid, aid |-> aid, old_aid |-> old_aid,
                            result |-> "ok"]
    /\ UNCHANGED clock

\* unbind_account(user_id)
UnbindAccount(user_id) ==
    /\ UNCHANGED notStoreVars
    /\ LET uid == NormalizeId(user_id) IN
       IF uid = NoId
       THEN /\ lastCall' = [op |-> "unbind", uid |-> uid, aid |-> NoId, old_aid |-> NoId,
                            result |-> "None"]
            /\ UNCHANGED <<owners, accountOwners, bindingsFile>>
       ELSE LET aid == owners[uid].account_id IN
            /\ owners' = [owners EXCEPT ![uid] = NoBinding]
            /\ accountOwners' =
                  IF aid # NoId /\ accountOwners[aid] = uid
                  THEN [accountOwners EXCEPT ![aid] = NoId]
                  ELSE accountOwners
            /\ SaveBindings
            /\ lastCall' = [op |-> "unbind", uid |-> uid, aid |-> NoId, old_aid |-> aid,
                            result |-> IF aid # NoId THEN "account" ELSE "None"]
    /\ UNCHANGED clock

StoreNext ==
    \/ StoreTick
    \/ \E u \in RawIds(StoreUsers), a \in RawIds(StoreAccounts) : BindAccount(u, a)
    \/ \E u \in RawIds(StoreUsers) : UnbindAccount(u)

\* ----------------------------------------------- QFarmStateStore claims

\* C7: after any sequence of bind_account and unbind_account calls the two
\* indices agree: every bound user is the owner recorded for its account, and
\* every owned account is the account recorded for its owner.
C7_IndicesAgree ==
    /\ \A u \in StoreUsers :
          owners[u] # NoBinding => accountOwners[owners[u].account_id] = u
    /\ \A a \in StoreAccounts :
          accountOwners[a] # NoId => owners[accountOwners[a]].account_id = a

\* C7 witness: a user bound to one account has just been bound to another,
\* while the other user holds a third account.
C7_Rebound ==
    /\ lastCall.op = "bind" /\ lastCall.result = "ok"
    /\ lastCall.old_aid # NoId /\ lastCall.old_aid # lastCall.aid
    /\ \E u \in StoreUsers : u # lastCall.uid /\ owners[u] # NoBinding

\* C23: bind_account(u, a) for an account that a different user owns fails
\* with AlreadyBound and leaves both indices (and with them any binding u
\* has) and the bindings file as they were before the call.
C23_AlreadyBoundChangesNothing ==
    [][\A u \in StoreUsers, a \in StoreAccounts, pu, pa \in BOOLEAN :
          (/\ BindAccount([text |-> u, padded |-> pu], [text |-> a, padded |-> pa])
           /\ accountOwners[a] \in StoreUsers \ {u})
          => /\ lastCall'.result = "AlreadyBound"
             /\ owners' = owners
             /\ accountOwners' = accountOwners
             /\ bindingsFile' = bindingsFile]_vars

\* a user who holds an account has just been refused the account of
\* another user
C23_RefusedWhileBound ==
    /\ lastCall.op = "bind" /\ lastCall.result = "AlreadyBound"
    /\ owners[lastCall.uid] # NoBinding
    /\ accountOwners[lastCall.aid] \in StoreUsers \ {lastCall.uid}

\* ====================================== QFarmStateStore: loading

\* entries of each JSON object of a bindings file
MaxEntries == 2

FileAccounts == {"acc-1", "acc-2"}

\* an entry of "owners": the key as written, and the info's account_id and
\* updated_at (NoId: account_id missing or blank)
OwnerEntries ==
    [user : RawIds(StoreUsers), account_id : FileAccounts \cup {NoId}, updated_at : 1..MaxClock]

\* an entry of "accountOwners"
IndexEntries == [account_id : FileAccounts, user : StoreUsers]

SeqsUpTo(S, n) == UNION {[1..k -> S] : k \in 0..n}

\* the keys of a JSON object are distinct as written
DistinctKeys(entries, key(_)) ==
    \A i, j \in DOMAIN entries : i # j => key(entries[i]) # key(entries[j])

UserKey(e) == e.user
AccountKey(e) == e.account_id

BindingsFiles ==
    {f \in [owners : SeqsUpTo(OwnerEntries, MaxEntries),
            accountOwners : SeqsUpTo(IndexEntries, 1)] :
        DistinctKeys(f.owners, UserKey) /\ DistinctKeys(f.accountOwners, AccountKey)}

EmptyFile == [owners |-> <<>>, accountOwners |-> <<>>]

LoadQuiet == bindingsRaw = EmptyFile /\ loadPc = "loaded"

LoadInit ==
    /\ bindingsRaw \in BindingsFiles
    /\ loadPc = "file"

NoCandidate == [uid |-> NoId, at |-> 0]

\* "if current is None or updated_at >= current[1]"
Replaces(current, updated_at) == current = NoCandidate \/ updated_at >= current.at

\* the first loop of _normalize_owner_bindings over the first n entries of
\* owners_raw: [owners, candidates]
RECURSIVE OwnersPass(_, _)
OwnersPass(entries, n) ==
    IF n = 0
    THEN [owners |-> [u \in StoreUsers |-> NoBinding],
          candidates |-> [a \in StoreAccounts |-> NoCandidate]]
    ELSE LET was == OwnersPass(entries, n - 1)
             uid == NormalizeId(entries[n].user)
             aid == entries[n].account_id
             updated_at == entries[n].updated_at
         IN
         IF uid = NoId \/ aid = NoId
         THEN was
         ELSE [owners |-> [was.owners EXCEPT
                              ![uid] = [account_id |-> aid, updated_at |-> updated_at]],
               candidates |->
                   IF Replaces(was.candidates[aid], updated_at)
                   THEN [was.candidates EXCEPT ![aid] = [uid |-> uid, at |-> updated_at]]
                   ELSE was.candidates]

\* the second loop, over the first n entries of account_owners_raw
RECURSIVE IndexPass(_, _, _, _)
IndexPass(entries, n, own, candidates) ==
    IF n = 0
    THEN candidates
    ELSE LET was == IndexPass(entries, n - 1, own, candidates)
             aid == entries[n].account_id
             uid == entries[n].user
         IN
         IF own[uid] = NoBinding \/ own[uid].account_id # aid
         THEN was
         ELSE IF Replaces(was[aid], own[uid].updated_at)
         THEN [was EXCEPT ![aid] = [uid |-> uid, at |-> own[uid].updated_at]]
         ELSE was

\* _normalize_owner_bindings(raw)
NormalizeOwnerBindings(raw) ==
    LET first == OwnersPass(raw.owners, Len(raw.owners))
        candidates ==
            IndexPass(raw.accountOwners, Len(raw.accountOwners), first.owners,
                      first.candidates)
    IN
    [owners |-> [u \in StoreUsers |->
                    IF \E a \in StoreAccounts : candidates[a].uid = u
                    THEN first.owners[u]
                    ELSE NoBinding],
     accountOwners |-> [a \in StoreAccounts |-> candidates[a].uid]]

\* QFarmStateStore.__init__: load the bindings file, normalize it, save it
LoadBindings ==
    /\ UNCHANGED notLoadVars
    /\ loadPc = "file"
    /\ LET normalized == NormalizeOwnerBindings(bindingsRaw) IN
       /\ owners' = normalized.owners
       /\ accountOwners' = normalized.accountOwners
    /\ SaveBindings
    /\ loadPc' = "loaded"
    /\ UNCHANGED <<bindingsRaw, clock, lastCall>>

LoadNext == LoadBindings

\* -------------------------------------- QFarmStateStore loading claims

\* the users that claim account a in the file, and the updated_at of a claim
Claims(a) ==
    {[uid |-> NormalizeId(bindingsRaw.owners[i].user),
      at |-> bindingsRaw.owners[i].updated_at] :
        i \in {j \in DOMAIN bindingsRaw.owners :
                  /\ bindingsRaw.owners[j].account_id = a
                  /\ NormalizeId(bindingsRaw.owners[j].user) # NoId}}

\* C24: after loading any bindings file the store is bijective, each
\* account claimed in the file is owned by one of its claimants whose
\* updated_at is the highest, and every other claimant has no binding.
C24_LoadYieldsBijectiveStore ==
    loadPc = "loaded" =>
       /\ \A u \in StoreUsers :
             owners[u] # NoBinding => accountOwners[owners[u].account_id] = u
       /\ \A a \in StoreAccounts :
             accountOwners[a] # NoId => owners[accountOwners[a]].account_id = a
       /\ \A a \in FileAccounts :
             Claims(a) # {} =>
                /\ \E c \in Claims(a) :
                      /\ accountOwners[a] = c.uid
                      /\ \A d \in Claims(a) : d.at <= c.at
                /\ \A d \in Claims(a) : d.uid # accountOwners[a] => owners[d.uid] = NoBinding

\* ================================= QFarmRuntimeManager.start_account

\* QFarmRuntimeManager(start_retry_max_attempts=3, start_retry_base_delay_sec=1.0,
\* start_retry_max_delay_sec=8.0)
StartRetryMaxAttempts == 3
StartRetryBaseDelay == 1
StartRetryMaxDelay == 8

Attempts == 1..StartRetryMaxAttempts

\* A text is the sequence of its pieces; a word occurs in it when the word's
\* pieces are consecutive pieces of the text ("word in text"). A piece in
\* braces stands for the run of Chinese text it translates.
Contains(text, word) ==
    \E i \in 1..(Len(text) - Len(word) + 1) : SubSeq(text, i, i + Len(word) - 1) = word

\* str.lower(), piece by piece
LowerPiece(piece) ==
    CASE piece = "Invalid" -> "invalid"
      [] piece = "UserService" -> "userservice"
      [] piece = ".Login" -> ".login"
      [] piece = "HTTP" -> "http"
      [] OTHER -> piece

Lower(text) == [i \in 1..Len(text) |-> LowerPiece(text[i])]

\* str.strip()
RECURSIVE Strip(_)
Strip(text) ==
    IF text = <<>> THEN text
    ELSE IF Head(text) = " " THEN Strip(Tail(text))
    ELSE IF text[Len(text)] = " " THEN Strip(SubSeq(text, 1, Len(text) - 1))
    ELSE text

\* What str(e) of a failed AccountRuntime.start() can be, and whether the
\* session's receive task is still running when it fails:
\*   _connect_and_login: the account has no code
\*   GatewaySession.start: the connection is refused; the gateway answers 400
\*   login call: the receive loop ended; the call timed out; the gateway
\*   answered with an error code; the reply has no basic field
\*   an exception without a message
ErrNoCode == <<"{account}", " ", "code", " ", "{is empty}">>
ErrConnect == <<"websocket", " ", "connect", " ", "failed", ":", " ", "refused">>
ErrHttp400 ==
    <<"websocket", " ", "connect", " ", "failed", ":", " ", "400", ",", " ", "message='",
      "Invalid", " ", "response", " ", "status", "',", " ", "url='", "ws", "s://", "gate'">>
ErrDisconnected == <<"websocket", " ", "disconnected">>
ErrTimeout ==
    <<"request", " ", "timeout", ":", " ", "gamepb.userpb.", "UserService", ".Login">>
ErrLogin ==
    <<"gamepb.userpb.", "UserService", ".Login", " ", "error=", "1000021", " ", "expired">>
ErrNoBasic == <<"{login lacks}", " ", "basic", " ", "{field}">>
ErrBlank == <<" ">>

StartFailures ==
    {[text |-> ErrNoCode, recvAlive |-> FALSE],
     [text |-> ErrConnect, recvAlive |-> FALSE],
     [text |-> ErrHttp400, recvAlive |-> FALSE],
     [text |-> ErrDisconnected, recvAlive |-> FALSE],
     [text |-> ErrTimeout, recvAlive |-> TRUE],
     [text |-> ErrLogin, recvAlive |-> TRUE],
     [text |-> ErrNoBasic, recvAlive |-> TRUE],
     [text |-> ErrBlank, recvAlive |-> FALSE]}

StartOk == [text |-> <<"ok">>, recvAlive |-> TRUE]

\* _is_retryable_start_error
NonRetryableWords ==
    {<<"missing", " ", "login", " ", "code">>,
     <<"code", " ", "{must not be empty}">>,
     <<".login", " ", "error=">>,
     <<"userservice", ".login", " ", "error=">>,
     <<"{account does not exist}">>,
     <<"account_id">>,
     <<"invalid", " ", "response", " ", "status">>,
     <<"status", "',", " ", "url='", "ws", "s://">>,
     <<" ", "400">>}

RetryableWords ==
    {<<"websocket", " ", "disconnected">>,
     <<"websocket", " ", "connect", " ", "failed">>,
     <<"connect", " ", "failed">>,
     <<"cannot", " ", "connect">>,
     <<"request", " ", "timeout">>,
     <<"timeout">>,
     <<"timed", " ", "out">>,
     <<"connection", " ", "reset">>,
     <<"broken", " ", "pipe">>,
     <<"network">>,
     <<"temporarily", " ", "unavailable">>,
     <<"ws">>}

IsRetryableStartError(error) ==
    LET text == Lower(Strip(error)) IN
    IF text = <<>> THEN FALSE
    ELSE IF \E word \in NonRetryableWords : Contains(text, word) THEN FALSE
    ELSE \E word \in RetryableWords : Contains(text, word)

\* _normalize_start_error
UnknownError == <<"{unknown error}">>
AuthFailedHint ==
    <<"{gateway auth failed}(", "HTTP", " ", "400", "){, the login credential may have expired, bind again}", " ", "code", " ",
      "{or scan to bind again.}">>
MissingCodeHint ==
    <<"{login credential missing}", " ", "code", "{, bind again}", " ", "code", " ", "{or scan to bind again.}">>
LoginFailedHint == <<"{login auth failed, bind again}", " ", "code", " ", "{or scan to bind again. original error}:", " ">>

NormalizeStartError(error) ==
    LET text == Strip(error)
        lowered == Lower(text)
    IN
    IF text = <<>> THEN UnknownError
    ELSE IF Contains(lowered, <<"invalid", " ", "response", " ", "status">>)
            /\ Contains(lowered, <<"400">>)
    THEN AuthFailedHint
    ELSE IF Contains(lowered, <<"missing", " ", "login", " ", "code">>)
            \/ Contains(lowered, <<"code", " ", "{must not be empty}">>)
    THEN MissingCodeHint
    ELSE IF Contains(lowered, <<".login", " ", "error=">>)
            \/ Contains(lowered, <<"userservice", ".login", " ", "error=">>)
    THEN LoginFailedHint \o text
    ELSE text

TheAccount == "1"
NoRuntime == [call |-> 0, attempt |-> 0]
NoStatus == [runtimeState |-> "", startRetryCount |-> 0, lastStartError |-> <<>>]
NoError == [retry |-> 0, of |-> 0, reason |-> <<>>]
NoStopCalls == [k \in Attempts |-> 0]

\* A manager with no runtime and no status row yet; the account is in the
\* accounts file or is not.
MgrInit0 ==
    /\ runtimes = NoRuntime
    /\ status = NoStatus
    /\ startCalls = 0
    /\ startPc = "idle"
    /\ attempt = 0
    /\ last_error = <<>>
    /\ outcomes = <<>>
    /\ stopCalls = NoStopCalls
    /\ sleeps = 0
    /\ delay = 0
    /\ raised = NoError

MgrInit == accountExists \in BOOLEAN /\ MgrInit0

MgrQuiet == accountExists = TRUE /\ MgrInit0

\* _set_runtime_status: merged = {**current, **patch}
StatusPatch(state, count, error) ==
    [runtimeState |-> state, startRetryCount |-> count, lastStartError |-> error]

\* delay = min(start_retry_max_delay_sec, start_retry_base_delay_sec * 2 ** (attempt - 1))
RetryDelay(k) ==
    LET d == StartRetryBaseDelay * 2 ^ (k - 1) IN
    IF d < StartRetryMaxDelay THEN d ELSE StartRetryMaxDelay

\* The head of one pass of the attempt loop, up to "await runtime.start()":
\* the status row is patched, a runtime is constructed and registered.
BeginAttempt(call, k, error) ==
    /\ attempt' = k
    /\ status' = StatusPatch(IF k = 1 THEN "starting" ELSE "retrying", k - 1,
                             IF k > 1 THEN error ELSE <<>>)
    /\ runtimes' = [call |-> call, attempt |-> k]
    /\ startPc' = "starting"

\* start_account(account_id) up to its first suspension. Calls for one account
\* run one after another (the per-account start lock).
StartAccount(account_id) ==
    /\ UNCHANGED notMgrVars
    /\ startPc \in {"idle", "returned", "raised", "cancelled"}
    /\ startCalls < MaxStartCalls
    /\ startCalls' = startCalls + 1
    /\ outcomes' = <<>>
    /\ stopCalls' = NoStopCalls
    /\ sleeps' = 0
    /\ delay' = 0
    /\ last_error' = <<>>
    /\ UNCHANGED accountExists
    /\ LET account_id_text == NormalizeId(account_id) IN
       IF account_id_text = NoId
       THEN /\ raised' = [retry |-> 0, of |-> 0, reason |-> <<"account_id", " ", "{must not be empty}">>]
            /\ startPc' = "raised"
            /\ attempt' = 0
            /\ UNCHANGED <<runtimes, status>>
       ELSE IF runtimes # NoRuntime
       THEN /\ status' = [status EXCEPT !.runtimeState = "running"]
            /\ startPc' = "returned"
            /\ raised' = NoError
            /\ attempt' = 0
            /\ UNCHANGED runtimes
       ELSE IF ~accountExists
       THEN /\ raised' = [retry |-> 0, of |-> 0, reason |-> <<"{account does not exist}">>]
            /\ startPc' = "raised"
            /\ attempt' = 0
            /\ UNCHANGED <<runtimes, status>>
       ELSE /\ raised' = NoError
            /\ BeginAttempt(startCalls + 1, 1, <<>>)

\* "await runtime.start()" returns.
RuntimeStarted ==
    /\ UNCHANGED notMgrVars
    /\ startPc = "starting"
    /\ outcomes' = Append(outcomes, StartOk)
    /\ status' = StatusPatch("running", attempt - 1, <<>>)
    /\ startPc' = "returned"
    /\ UNCHANGED <<runtimes, accountExists, startCalls, attempt, last_error, stopCalls,
                   sleeps, delay, raised>>

\* AccountRuntime.stop() of a runtime whose start failed: it ends with
\* "await self.session.stop()", and GatewaySession.stop() raises
\* CancelledError when it had a receive task to cancel (StopEnd). The
\* "except Exception" around runtime.stop() does not catch it.
RuntimeStopCancelled(failure) == failure.recvAlive

\* "await runtime.start()" raises: the except branch of the attempt loop, up
\* to the raise, the back-off sleep, or the CancelledError that leaves the call.
RuntimeStartFailed(failure) ==
    /\ UNCHANGED notMgrVars
    /\ startPc = "starting"
    /\ outcomes' = Append(outcomes, failure)
    /\ stopCalls' = [stopCalls EXCEPT ![attempt] = @ + 1]
    /\ IF RuntimeStopCancelled(failure)
       THEN /\ startPc' = "cancelled"
            /\ UNCHANGED <<runtimes, status, last_error, sleeps, delay, raised>>
       ELSE LET error == NormalizeStartError(failure.text)
                can_retry == attempt < StartRetryMaxAttempts /\ IsRetryableStartError(error)
            IN
            /\ runtimes' = NoRuntime
            /\ last_error' = error
            /\ status' = StatusPatch(IF can_retry THEN "retrying" ELSE "failed", attempt, error)
            /\ IF can_retry
               THEN /\ delay' = RetryDelay(attempt)
                    /\ sleeps' = sleeps + 1
                    /\ startPc' = "sleeping"
                    /\ UNCHANGED raised
               ELSE /\ raised' = [retry |-> attempt, of |-> StartRetryMaxAttempts,
                                  reason |-> error]
                    /\ startPc' = "raised"
                    /\ UNCHANGED <<delay, sleeps>>
    /\ UNCHANGED <<accountExists, startCalls, attempt>>

\* "await asyncio.sleep(delay)" returns and the next pass of the loop begins.
RetrySleepDone ==
    /\ UNCHANGED notMgrVars
    /\ startPc = "sleeping"
    /\ BeginAttempt(startCalls, attempt + 1, last_error)
    /\ UNCHANGED <<accountExists, startCalls, last_error, outcomes, stopCalls, sleeps,
                   delay, raised>>

MgrNext ==
    \/ \E a \in RawIds({TheAccount}) : StartAccount(a)
    \/ RuntimeStarted
    \/ \E f \in StartFailures : RuntimeStartFailed(f)
    \/ RetrySleepDone

\* ------------------------------------------------- start_account claims

AttemptsMade == Len(outcomes)

RetryableFailure(i) ==
    /\ outcomes[i] \in StartFailures
    /\ IsRetryableStartError(NormalizeStartError(outcomes[i].text))

FinalFailure(i) ==
    /\ outcomes[i] \in StartFailures
    /\ ~IsRetryableStartError(NormalizeStartError(outcomes[i].text))

CallOver == startPc \in {"returned", "raised", "cancelled"}

\* C8: when every attempt so far failed with a retryable error and attempts
\* are left, start_account goes on to the next attempt; and when attempt k
\* succeeds, k attempts were made and the call returns with the runtime of
\* attempt k in the registry, status running, startRetryCount = k-1 and
\* lastStartError empty.
C8_RetryUntilSuccess ==
    /\ (/\ AttemptsMade \in 1..(StartRetryMaxAttempts - 1)
        /\ \A i \in 1..AttemptsMade : RetryableFailure(i))
       => ~CallOver
    /\ (AttemptsMade >= 1 /\ outcomes[AttemptsMade] = StartOk)
       => /\ startPc = "returned"
          /\ attempt = AttemptsMade
          /\ runtimes = [call |-> startCalls, attempt |-> AttemptsMade]
          /\ status = StatusPatch("running", AttemptsMade - 1, <<>>)

\* C9: a failure whose normalized message is not retryable ends the call at
\* that attempt k: no further attempt and no back-off sleep for it, status
\* failed, and the error raised carries "(重试k/N)".
C9_NotRetryableNeverRetried ==
    (AttemptsMade >= 1 /\ FinalFailure(AttemptsMade))
    => /\ startPc = "raised"
       /\ attempt = AttemptsMade
       /\ sleeps = AttemptsMade - 1
       /\ status.runtimeState = "failed"
       /\ raised.retry = AttemptsMade
       /\ raised.of = StartRetryMaxAttempts

\* C10: when start_account fails, after a failure that is not retryable or
\* after the last allowed attempt, every runtime it constructed was stopped
\* exactly once, the registry has no entry for the account, the status row
\* is failed with startRetryCount the attempts made and lastStartError set,
\* and the error raised carries "(重试N/M)" with N the attempts made.
C10_FailedStartCleansUp ==
    (/\ AttemptsMade >= 1
     /\ outcomes[AttemptsMade] \in StartFailures
     /\ (FinalFailure(AttemptsMade) \/ AttemptsMade = StartRetryMaxAttempts))
    => /\ \A i \in 1..AttemptsMade : stopCalls[i] = 1
       /\ runtimes = NoRuntime
       /\ status.runtimeState = "failed"
       /\ status.startRetryCount = AttemptsMade
       /\ status.lastStartError # <<>>
       /\ raised = [retry |-> AttemptsMade, of |-> StartRetryMaxAttempts,
                    reason |-> status.lastStartError]

\* ============================== QFarmRuntimeManager.stop_account

\* stop_account calls
MaxStopCalls == 2

\* what a finished stop_account(a) left: the registry entry, the status row,
\* and how the call ended ("none": no such call yet)
NoSnapshot == [runtimes |-> NoRuntime, status |-> NoStatus, outcome |-> "none"]
Snapshot(r, st, outcome) == [runtimes |-> r, status |-> st, outcome |-> outcome]
SameState(a, b) == a.runtimes = b.runtimes /\ a.status = b.status

LifeInit ==
    /\ acctStopPc = "idle"
    /\ stopFor = NoId
    /\ stopAcctCalls = 0
    /\ leftBy = NoSnapshot
    /\ againFrom = NoSnapshot

\* _set_runtime_status(account_id, runtimeState="stopped"): nothing for a
\* blank id, else merged = {**current, **patch}
SetStopped(account_id_text, st) ==
    IF account_id_text = NoId THEN st ELSE [st EXCEPT !.runtimeState = "stopped"]

\* the "finally" of stop_account runs whether or not runtime.stop() raised
CleansUpOnlyOnReturn(outcome) == outcome = "returned"
CleansUp(outcome) == TRUE

\* stop_account(account_id) up to "await runtime.stop()"; without a runtime
\* for the id it patches the status row and returns.
StopAccount(account_id) ==
    /\ UNCHANGED notLifeVars
    /\ acctStopPc # "stopping"
    /\ stopAcctCalls < MaxStopCalls
    /\ stopAcctCalls' = stopAcctCalls + 1
    /\ LET account_id_text == NormalizeId(account_id)
           runtime == IF account_id_text = TheAccount THEN runtimes ELSE NoRuntime
       IN
       /\ stopFor' = account_id_text
       /\ againFrom' = IF /\ account_id_text = TheAccount
                          /\ leftBy.outcome # "none"
                          /\ SameState(leftBy, Snapshot(runtimes, status, "none"))
                       THEN leftBy ELSE NoSnapshot
       /\ IF runtime = NoRuntime
          THEN /\ status' = SetStopped(account_id_text, status)
               /\ acctStopPc' = "returned"
               /\ leftBy' = IF account_id_text = TheAccount
                            THEN Snapshot(runtimes, status', "returned") ELSE leftBy
               /\ UNCHANGED runtimes
          ELSE /\ acctStopPc' = "stopping"
               /\ UNCHANGED <<runtimes, status, leftBy>>
    /\ UNCHANGED <<accountExists, startCalls, startPc, attempt, last_error, outcomes,
                   stopCalls, sleeps, delay, raised>>

\* "await runtime.stop()" returns or raises (CancelledError out of
\* GatewaySession.stop() when the receive task was alive, or an error of the
\* transport's close), and the finally block runs.
RuntimeStopDone(outcome) ==
    /\ UNCHANGED notLifeVars
    /\ acctStopPc = "stopping"
    /\ acctStopPc' = IF outcome = "returned" THEN "returned" ELSE "raised"
    /\ IF CleansUp(outcome)
       THEN /\ runtimes' = NoRuntime
            /\ status' = SetStopped(stopFor, status)
       ELSE UNCHANGED <<runtimes, status>>
    /\ leftBy' = Snapshot(runtimes', status', outcome)
    /\ UNCHANGED <<stopFor, stopAcctCalls, againFrom>>
    /\ UNCHANGED <<accountExists, startCalls, startPc, attempt, last_error, outcomes,
                   stopCalls, sleeps, delay, raised>>

StopOutcomes == {"returned", "cancelled", "error"}

LifeNext ==
    \/ \E a \in RawIds({TheAccount}) : StartAccount(a)
    \/ RuntimeStarted
    \/ \E f \in StartFailures : RuntimeStartFailed(f)
    \/ RetrySleepDone
    \/ \E a \in RawIds({TheAccount}) : StopAccount(a)
    \/ \E o \in StopOutcomes : RuntimeStopDone(o)

\* ------------------------------------------------- stop_account claims

\* no start_account for the account is between taking and releasing the
\* per-account start lock
StartLockFree == startPc \notin {"starting", "sleeping"}

\* C11: whenever no start_account for the account holds the per-account
\* start lock, an account with a runtime in the registry has runtimeState
\* running, and an account with none and a non-empty lastStartError has
\* runtimeState failed or retrying.
C11_RegistryMatchesStatus ==
    StartLockFree
    => /\ runtimes # NoRuntime => status.runtimeState = "running"
       /\ (runtimes = NoRuntime /\ status.lastStartError # <<>>)
          => status.runtimeState \in {"failed", "retrying"}

\* C12: a finished stop_account(a) leaves no registry entry for a and the
\* status row stopped, whether the runtime's stop returned or raised and
\* whether there was a runtime at all; a stop_account(a) that starts where a
\* stop_account(a) left the registry and the row leaves them as they were.
C12_StopAccountIdempotent ==
    leftBy.outcome # "none"
    => /\ leftBy.runtimes = NoRuntime
       /\ leftBy.status.runtimeState = "stopped"
       /\ againFrom.outcome # "none" => SameState(leftBy, againFrom)

\* a runtime's stop raised inside stop_account, and a second stop_account
\* for the account has run after it
C12_StoppedTwiceAfterRaise ==
    /\ stopAcctCalls = 2
    /\ acctStopPc = "returned"
    /\ againFrom.outcome = "cancelled"
    /\ stopFor = TheAccount

\* ================================ QFarmRuntimeManager: all accounts

\* accounts created by upsert_account
MaxCreates == 3

\* str(n) of an account number, and _to_int(text, 0)
Decimal == <<"1", "2", "3", "4", "5", "6", "7", "8", "9">>
IdText(n) == Decimal[n]
ToInt(text) ==
    IF \E n \in DOMAIN Decimal : Decimal[n] = text
    THEN CHOOSE n \in DOMAIN Decimal : Decimal[n] = text
    ELSE 0

FleetIds == {IdText(n) : n \in 1..MaxCreates}

Max(a, b) == IF a > b THEN a ELSE b
Min(a, b) == IF a < b THEN a ELSE b
SetMax(S) == CHOOSE m \in S : \A n \in S : n <= m

\* _normalize_accounts_data: next_id = max(nextId, max_id + 1 if normalized else 1)
NormalizeAccountsData(accs, nid) ==
    [accounts |-> accs,
     nextId |-> Max(nid, IF accs # {} THEN SetMax({ToInt(a) : a \in accs}) + 1 ELSE 1)]

NoConfig == [k \in {} |-> FALSE]
EmptyPatch == [k \in {} |-> FALSE]

\* what the manager keeps in its three files
Persisted ==
    [accounts |-> accounts, nextId |-> nextId, accountConfigs |-> accountConfigs,
     revision |-> revision, theme |-> theme, rows |-> rows]

Op(name, account, outcome, payload) ==
    [op |-> name, account |-> account, outcome |-> outcome, payload |-> payload,
     before |-> Persisted, targets |-> {registry[i] : i \in DOMAIN registry}]

\* A manager constructed on an empty data directory.
FleetInit ==
    /\ accounts = {}
    /\ nextId = 1
    /\ issued = <<>>
    /\ registry = <<>>
    /\ alive = {}
    /\ linkUp = {}
    /\ rows = [a \in FleetIds |-> "none"]
    /\ accountConfigs = [a \in FleetIds |-> NoConfig]
    /\ revision = 0
    /\ theme = "dark"
    /\ lastOp = [op |-> "none", account |-> NoId, outcome |-> "none", payload |-> EmptyPatch,
                 before |-> [accounts |-> {}, nextId |-> 1,
                             accountConfigs |-> [a \in FleetIds |-> NoConfig],
                             revision |-> 0, theme |-> "dark",
                             rows |-> [a \in FleetIds |-> "none"]],
                 targets |-> {}]

\* the registry, the runtimes and the status rows, as stop_account and
\* start_account read and write them
FleetState == [registry |-> registry, alive |-> alive, linkUp |-> linkUp, rows |-> rows]

InRegistry(reg, a) == \E i \in DOMAIN reg : reg[i] = a
Without(reg, a) == SelectSeq(reg, LAMBDA x : x # a)

\* _set_runtime_status(account_id, runtimeState=state)
SetRow(rs, a, state) == IF a \in DOMAIN rs THEN [rs EXCEPT ![a] = state] ELSE rs

\* AccountRuntime.stop(): nothing when running is False; else it ends with
\* session.stop(), which raises CancelledError when the receive task is
\* alive, and otherwise returns unless closing the transport raises.
RuntimeStopOutcome(fs, a, errs) ==
    IF a \notin fs.alive THEN "returned"
    ELSE IF a \in fs.linkUp THEN "cancelled"
    ELSE IF a \in errs THEN "error"
    ELSE "returned"

\* stop_account(a): the state it leaves and how it ends
StopOne(fs, a, errs) ==
    IF ~InRegistry(fs.registry, a)
    THEN [fs |-> [fs EXCEPT !.rows = SetRow(@, a, "stopped")], outcome |-> "returned"]
    ELSE [fs |-> [registry |-> Without(fs.registry, a),
                  alive |-> fs.alive \ {a},
                  linkUp |-> fs.linkUp \ {a},
                  rows |-> SetRow(fs.rows, a, "stopped")],
          outcome |-> RuntimeStopOutcome(fs, a, errs)]

\* start_account(a) as its caller sees it: the runtime started, or the start
\* failed and was cleaned up, or CancelledError left the call with the
\* runtime still registered (RuntimeStartFailed, RuntimeStopCancelled)
StartResults == {"started", "failed", "cancelled"}

StartOne(fs, a, start) ==
    IF InRegistry(fs.registry, a)
    THEN [fs |-> [fs EXCEPT !.rows = SetRow(@, a, "running")], outcome |-> "returned"]
    ELSE IF start = "started"
    THEN [fs |-> [registry |-> Append(fs.registry, a),
                  alive |-> fs.alive \cup {a},
                  linkUp |-> fs.linkUp \cup {a},
                  rows |-> SetRow(fs.rows, a, "running")],
          outcome |-> "returned"]
    ELSE IF start = "failed"
    THEN [fs |-> [fs EXCEPT !.rows = SetRow(@, a, "failed")], outcome |-> "error"]
    ELSE [fs |-> [fs EXCEPT !.registry = Append(@, a), !.rows = SetRow(@, a, "starting")],
          outcome |-> "cancelled"]

SetFleet(fs) ==
    /\ registry' = fs.registry
    /\ alive' = fs.alive
    /\ linkUp' = fs.linkUp
    /\ rows' = fs.rows

\* upsert_account(payload) without an id: a record with the next id is
\* added, then the account is started; a failed start is reported in the
\* result, not raised.
UpsertAccountAdd(start) ==
    /\ UNCHANGED notFleetVars
    /\ Len(issued) < MaxCreates
    /\ LET data == NormalizeAccountsData(accounts, nextId)
           new_id == IdText(data.nextId)
           r == StartOne(FleetState, new_id, start)
       IN
       /\ accounts' = data.accounts \cup {new_id}
       /\ nextId' = data.nextId + 1
       /\ issued' = Append(issued, new_id)
       /\ SetFleet(r.fs)
       /\ lastOp' = Op("upsert_account", new_id,
                       IF r.outcome = "cancelled" THEN "cancelled" ELSE "returned", EmptyPatch)
    /\ UNCHANGED <<accountConfigs, revision, theme>>

\* stop_account(account_id)
FleetStopAccount(account_id, closeError) ==
    /\ UNCHANGED notFleetVars
    /\ LET a == NormalizeId(account_id)
           r == StopOne(FleetState, a, IF closeError THEN {a} ELSE {})
       IN
       /\ closeError => a \in alive \ linkUp
       /\ SetFleet(r.fs)
       /\ lastOp' = Op("stop_account", a, r.outcome, EmptyPatch)
    /\ UNCHANGED <<accounts, nextId, issued, accountConfigs, revision, theme>>

\* stop(): "for account_id in runtime_ids: try: await stop_account(...)
\* except Exception: continue". CancelledError is not an Exception.
RECURSIVE StopEach(_, _, _)
StopEach(fs, runtime_ids, errs) ==
    IF runtime_ids = <<>>
    THEN [fs |-> fs, outcome |-> "returned"]
    ELSE LET r == StopOne(fs, Head(runtime_ids), errs) IN
         IF r.outcome = "cancelled"
         THEN r
         ELSE StopEach(r.fs, Tail(runtime_ids), errs)

ManagerStop(errs) ==
    /\ UNCHANGED notFleetVars
    /\ LET r == StopEach(FleetState, registry, errs) IN
       /\ SetFleet(r.fs)
       /\ lastOp' = Op("stop", NoId, r.outcome, EmptyPatch)
    /\ UNCHANGED <<accounts, nextId, issued, accountConfigs, revision, theme>>

\* delete_account(a) for a non-blank id: stop_account first; an error out of
\* it ends the call there. Then the record is looked up (NotFound when
\* there is none), removed with the account's settings and status row, and
\* the accounts file and the settings file are saved.
DeleteOne(a, errs) ==
    LET r == StopOne(FleetState, a, errs)
        data == NormalizeAccountsData(accounts, nextId)
        kept == data.accounts \ {a}
        same == [accounts |-> accounts, nextId |-> nextId, accountConfigs |-> accountConfigs]
    IN
    IF r.outcome # "returned"
    THEN same @@ [fs |-> r.fs, outcome |-> r.outcome]
    ELSE IF kept = data.accounts
    THEN same @@ [fs |-> r.fs, outcome |-> "not_found"]
    ELSE [accounts |-> kept,
          nextId |-> IF kept = {} THEN 1 ELSE data.nextId,
          accountConfigs |-> [accountConfigs EXCEPT ![a] = NoConfig],
          fs |-> [r.fs EXCEPT !.rows = SetRow(@, a, "none")],
          outcome |-> "returned"]

SetDeleted(d) ==
    /\ accounts' = d.accounts
    /\ nextId' = d.nextId
    /\ accountConfigs' = d.accountConfigs
    /\ SetFleet(d.fs)

DeleteAccount(account_id, closeError) ==
    /\ UNCHANGED notFleetVars
    /\ LET a == NormalizeId(account_id) IN
       IF a = NoId
       THEN /\ ~closeError
            /\ lastOp' = Op("delete_account", a, "blank_id", EmptyPatch)
            /\ UNCHANGED <<accounts, nextId, accountConfigs, registry, alive, linkUp, rows>>
       ELSE LET d == DeleteOne(a, IF closeError THEN {a} ELSE {}) IN
            /\ closeError => a \in alive \ linkUp
            /\ SetDeleted(d)
            /\ lastOp' = Op("delete_account", a, d.outcome, EmptyPatch)
    /\ UNCHANGED <<issued, revision, theme>>

\* A Kickout notification reaches the runtime of account a: _on_notify
\* clears connected and login_ready and awaits the manager's callback,
\* _on_runtime_kicked, which runs delete_account(a) and swallows an
\* Exception. All of it runs inside the session's receive task.
Kickout(a) ==
    /\ UNCHANGED notFleetVars
    /\ a \in linkUp
    /\ LET d == DeleteOne(a, {}) IN
       /\ SetDeleted(d)
       /\ lastOp' = Op("kickout", a, d.outcome, EmptyPatch)
    /\ UNCHANGED <<issued, revision, theme>>

\* The receive loop of a runtime's session ends on its own (the peer closed
\* the socket).
ConnectionLost(a) ==
    /\ UNCHANGED notFleetVars
    /\ a \in linkUp
    /\ linkUp' = linkUp \ {a}
    /\ lastOp' = Op("connection_lost", a, "returned", EmptyPatch)
    /\ UNCHANGED <<accounts, nextId, issued, registry, alive, rows, accountConfigs,
                   revision, theme>>

FleetNext ==
    \/ \E start \in StartResults : UpsertAccountAdd(start)
    \/ \E a \in RawIds(FleetIds), e \in BOOLEAN : FleetStopAccount(a, e)
    \/ \E errs \in SUBSET (alive \ linkUp) : ManagerStop(errs)
    \/ \E a \in RawIds(FleetIds), e \in BOOLEAN : DeleteAccount(a, e)
    \/ \E a \in FleetIds : Kickout(a)
    \/ \E a \in FleetIds : ConnectionLost(a)

\* ---------------------------------------------- all-accounts claims

\* nothing is kept for account a: no runtime, no record, no settings, no row
Gone(a) ==
    /\ ~InRegistry(registry, a)
    /\ a \notin accounts
    /\ accountConfigs[a] = NoConfig
    /\ rows[a] = "none"

\* the record, the settings and the status row of account b are what they
\* were before the last operation
Untouched(b) ==
    /\ b \in accounts <=> b \in lastOp.before.accounts
    /\ accountConfigs[b] = lastOp.before.accountConfigs[b]
    /\ rows[b] = lastOp.before.rows[b]

\* C13: after the manager's stop(), however the stopping of any one runtime
\* ended, no runtime that was in the registry when it was called is still
\* running; and when stop() has returned the registry is empty and each of
\* those accounts has status stopped.
C13_StopStopsEveryRuntime ==
    lastOp.op = "stop"
    => /\ \A a \in lastOp.targets : a \notin alive
       /\ lastOp.outcome = "returned"
          => /\ registry = <<>>
             /\ \A a \in lastOp.targets : rows[a] = "stopped"

\* C14: once the Kickout notification of a running account has been
\* handled, its runtime is not running and the account is deleted: no
\* registry entry, no account record, no per-account settings, no status row.
C14_KickoutDeletesAccount ==
    lastOp.op = "kickout"
    => /\ lastOp.account \notin alive
       /\ lastOp.account \notin linkUp
       /\ Gone(lastOp.account)

\* C15: delete_account(a) on an existing account returns with no registry
\* entry, record, settings or status row left for a and with the records,
\* settings and status rows of all other accounts unchanged; on an unknown
\* id it fails with NotFound and leaves the persisted state as it was.
C15_DeleteAccountFrame ==
    (lastOp.op = "delete_account" /\ lastOp.account # NoId)
    => IF lastOp.account \in lastOp.before.accounts
       THEN /\ lastOp.outcome = "returned"
            /\ Gone(lastOp.account)
            /\ \A b \in FleetIds \ {lastOp.account} : Untouched(b)
       ELSE /\ lastOp.outcome = "not_found"
            /\ Persisted = lastOp.before

\* C16: no id is handed out twice by upsert_account, whatever was deleted
\* in between.
C16_IdsNeverReused ==
    \A i, j \in DOMAIN issued : i # j => issued[i] # issued[j]

\* ===================================== QFarmRuntimeManager: settings

\* writes of the settings file that raise __revision
MaxRevision == 2

\* A value of a payload as Python sees it: a dict or not, an int or not.
Dict(items) == [dict |-> TRUE, items |-> items]
NotADict == [dict |-> FALSE, items |-> EmptyPatch]
Num(n) == [num |-> TRUE, val |-> n]
NotANum == [num |-> FALSE, val |-> 0]

\* _to_int(value, default)
ToIntOr(value, default) == IF value.num THEN value.val ELSE default

\* DEFAULT_ACCOUNT_CONFIG, with two entries of each map
DefaultAccountConfig ==
    [automation |-> [farm |-> TRUE, friend_bad |-> FALSE],
     strategy |-> "preferred",
     preferredSeedId |-> 0,
     intervals |-> [farm |-> 2, friend |-> 10],
     friendQuietHours |-> [enabled |-> FALSE, start |-> "23:00"]]

\* result.setdefault(key, {}).update(src.get(key))
MergedMapReplaced(baseMap, items) == items
MergedMap(baseMap, items) ==
    [k \in DOMAIN baseMap \cup DOMAIN items |->
        IF k \in DOMAIN items THEN items[k] ELSE baseMap[k]]

\* the map of the result under key: merged when the patch has a dict there
MapAfter(base, src, key) ==
    IF key \in DOMAIN src /\ src[key].dict
    THEN MergedMap(base[key], src[key].items)
    ELSE base[key]

\* _merge_settings(base, patch)
MergeSettings(base, src) ==
    [automation |-> MapAfter(base, src, "automation"),
     strategy |-> IF "strategy" \in DOMAIN src
                  THEN (IF src.strategy = "" THEN "preferred" ELSE src.strategy)
                  ELSE base.strategy,
     preferredSeedId |-> IF "seedId" \in DOMAIN src
                         THEN Max(0, ToIntOr(src.seedId, 0))
                         ELSE IF "preferredSeedId" \in DOMAIN src
                         THEN Max(0, ToIntOr(src.preferredSeedId, 0))
                         ELSE base.preferredSeedId,
     intervals |-> MapAfter(base, src, "intervals"),
     friendQuietHours |-> MapAfter(base, src, "friendQuietHours")]

\* a stored configuration read back as the patch of a merge
AsPatch(cfg) ==
    IF cfg = NoConfig
    THEN EmptyPatch
    ELSE [automation |-> Dict(cfg.automation),
          strategy |-> cfg.strategy,
          preferredSeedId |-> Num(cfg.preferredSeedId),
          intervals |-> Dict(cfg.intervals),
          friendQuietHours |-> Dict(cfg.friendQuietHours)]

\* _get_account_settings: DEFAULT_ACCOUNT_CONFIG, then defaultAccountConfig
\* of the settings file, then the account's own entry
AccountSettings(cfgs, a) ==
    LET base == MergeSettings(DefaultAccountConfig, AsPatch(DefaultAccountConfig)) IN
    MergeSettings(base, AsPatch(cfgs[a]))

\* get_settings(a)
GetSettings(cfgs, th, a) ==
    LET cfg == AccountSettings(cfgs, a) IN
    [intervals |-> cfg.intervals,
     strategy |-> cfg.strategy,
     preferredSeed |-> cfg.preferredSeedId,
     friendQuietHours |-> cfg.friendQuietHours,
     automation |-> cfg.automation,
     ui |-> [theme |-> th]]

\* payloads of save_settings
SettingsPayloads ==
    {EmptyPatch,
     [automation |-> Dict([farm |-> FALSE])],
     [automation |-> Dict([friend_bad |-> TRUE, task |-> FALSE])],
     [automation |-> NotADict],
     [intervals |-> Dict([farm |-> 5])],
     [friendQuietHours |-> Dict([enabled |-> TRUE])],
     [strategy |-> "level"],
     [strategy |-> ""],
     [preferredSeedId |-> Num(5)],
     [preferredSeedId |-> Num(0 - 1)],
     [preferredSeedId |-> NotANum],
     [seedId |-> Num(7)],
     [preferredSeedId |-> Num(5), seedId |-> Num(7)],
     [automation |-> Dict([farm |-> FALSE]), strategy |-> "level"]}

\* save_settings(account_id, payload), also as set_automation calls it
SaveSettingsAs(name, account_id, payload) ==
    /\ UNCHANGED notFleetVars
    /\ revision < MaxRevision
    /\ LET a == NormalizeId(account_id) IN
       IF a = NoId
       THEN /\ lastOp' = Op(name, a, "blank_id", payload)
            /\ UNCHANGED <<accountConfigs, revision>>
       ELSE /\ accountConfigs' =
                  [accountConfigs EXCEPT
                      ![a] = MergeSettings(AccountSettings(accountConfigs, a), payload)]
            /\ revision' = revision + 1
            /\ lastOp' = Op(name, a, "returned", payload)
    /\ UNCHANGED <<accounts, nextId, issued, registry, alive, linkUp, rows, theme>>

SaveSettings(account_id, payload) == SaveSettingsAs("save_settings", account_id, payload)

\* set_automation(account_id, key, value)
SetAutomation(account_id, key, value) ==
    SaveSettingsAs("set_automation", account_id, [automation |-> Dict(key :> value)])

\* str(theme or "dark").strip().lower(), and "dark" for anything but the two themes
ThemeTexts == {"", "dark", "light", " Light ", "LIGHT", "blue"}
ThemeValue(text) ==
    IF text \in {"light", " Light ", "LIGHT"} THEN "light" ELSE "dark"

\* set_theme(theme)
SetTheme(text) ==
    /\ UNCHANGED notFleetVars
    /\ revision < MaxRevision
    /\ theme' = ThemeValue(text)
    /\ revision' = revision + 1
    /\ lastOp' = Op("set_theme", NoId, "returned", EmptyPatch)
    /\ UNCHANGED <<accounts, nextId, issued, registry, alive, linkUp, rows, accountConfigs>>

\* The operations on the settings file, for the accounts of the accounts
\* file, on a manager whose gateway cannot be reached: every start fails and
\* no account has a runtime.
SettingsNext ==
    \/ \E start \in {"failed"} : UpsertAccountAdd(start)
    \/ \E a \in RawIds(accounts), e \in {FALSE} : DeleteAccount(a, e)
    \/ \E a \in RawIds(accounts), p \in SettingsPayloads : SaveSettings(a, p)
    \/ \E a \in RawIds(accounts), k \in {"farm", "task"}, v \in BOOLEAN : SetAutomation(a, k, v)
    \/ \E t \in ThemeTexts : SetTheme(t)

\* ------------------------------------------------- settings claims

\* the last operation wrote the settings file
WroteSettingsFile ==
    \/ lastOp.op \in {"save_settings", "set_automation", "set_theme"}
       /\ lastOp.outcome = "returned"
    \/ lastOp.op \in {"delete_account", "kickout"} /\ lastOp.outcome = "returned"

\* C17: every operation that writes the settings file leaves __revision
\* greater than it was before the operation, and no operation lowers it.
C17_RevisionStrictlyIncreases ==
    /\ revision >= lastOp.before.revision
    /\ WroteSettingsFile => revision > lastOp.before.revision

\* the entries of map key that the payload of the last operation patches
PatchedEntries(key) ==
    IF key \in DOMAIN lastOp.payload /\ lastOp.payload[key].dict
    THEN DOMAIN lastOp.payload[key].items
    ELSE {}

\* map key of the settings of the account is the earlier map with the
\* patched entries set and every other entry as it was
MapPatched(was, is, key) ==
    /\ DOMAIN is[key] = DOMAIN was[key] \cup PatchedEntries(key)
    /\ \A k \in DOMAIN is[key] :
          is[key][k] = IF k \in PatchedEntries(key)
                       THEN lastOp.payload[key].items[k]
                       ELSE was[key][k]

\* C18: after save_settings(a, patch), get_settings(a) is what it was before
\* with the patched keys set: a patched map keeps its other entries, an
\* unpatched key keeps its value, and get_settings of every other account
\* is what it was.
C18_SaveThenGet ==
    (lastOp.op \in {"save_settings", "set_automation"} /\ lastOp.outcome = "returned")
    => LET a == lastOp.account
           p == lastOp.payload
           was == GetSettings(lastOp.before.accountConfigs, lastOp.before.theme, a)
           is == GetSettings(accountConfigs, theme, a)
       IN
       /\ MapPatched(was, is, "automation")
       /\ MapPatched(was, is, "intervals")
       /\ MapPatched(was, is, "friendQuietHours")
       /\ "strategy" \notin DOMAIN p => is.strategy = was.strategy
       /\ ("strategy" \in DOMAIN p /\ p.strategy # "") => is.strategy = p.strategy
       /\ ("strategy" \in DOMAIN p /\ p.strategy = "") => is.strategy = "preferred"
       /\ DOMAIN p \cap {"preferredSeedId", "seedId"} = {}
          => is.preferredSeed = was.preferredSeed
       /\ ("seedId" \in DOMAIN p /\ p.seedId.num /\ p.seedId.val >= 0)
          => is.preferredSeed = p.seedId.val
       /\ (/\ "preferredSeedId" \in DOMAIN p
           /\ "seedId" \notin DOMAIN p
           /\ p.preferredSeedId.num
           /\ p.preferredSeedId.val >= 0)
          => is.preferredSeed = p.preferredSeedId.val
       /\ is.ui = was.ui
       /\ \A b \in FleetIds \ {a} :
             GetSettings(accountConfigs, theme, b)
                = GetSettings(lastOp.before.accountConfigs, lastOp.before.theme, b)

\* an automation map that already differs from the default, and has an
\* entry the default lacks, was patched in one other entry
C18_PatchedTwice ==
    /\ lastOp.op = "save_settings"
    /\ lastOp.outcome = "returned"
    /\ PatchedEntries("automation") = {"farm"}
    /\ lastOp.before.accountConfigs[lastOp.account] # NoConfig
    /\ lastOp.before.accountConfigs[lastOp.account].automation
          # DefaultAccountConfig.automation
    /\ DOMAIN accountConfigs[lastOp.account].automation = {"farm", "friend_bad", "task"}

\* ===================================================== AccountRuntime

\* start() calls on one runtime
MaxRtStarts == 3

RtInit ==
    /\ running = FALSE
    /\ loginReady = FALSE
    /\ sessState = "none"
    /\ wildcard = 0
    /\ loops = FALSE
    /\ inviteTask = "none"
    /\ inviteProcessed = FALSE
    /\ rtPc = "idle"
    /\ failedAt = "none"
    /\ rtStarts = 0
    /\ rtStopped = "none"

\* GatewaySession.connected: there is a socket object and it is not closed
SessionConnected == sessState \in {"open", "stale"}

InStart == rtPc \in {"connecting", "login", "bag"}

\* start() up to its first suspension: nothing when running; else
\* _connect_and_login begins: an empty code raises, a session that is
\* connected is used as it is, otherwise the socket is being opened.
RtStart(codeEmpty) ==
    /\ UNCHANGED notRtVars
    /\ ~InStart
    /\ rtStarts < MaxRtStarts
    /\ rtStarts' = rtStarts + 1
    /\ IF running
       THEN /\ rtPc' = "returned"
            /\ failedAt' = "none"
            /\ UNCHANGED <<running, wildcard>>
       ELSE /\ running' = TRUE
            /\ IF codeEmpty
               THEN /\ rtPc' = "raised"
                    /\ failedAt' = "code"
                    /\ UNCHANGED wildcard
               ELSE IF SessionConnected
               THEN /\ rtPc' = "login"
                    /\ failedAt' = "none"
                    /\ wildcard' = wildcard + 1
               ELSE /\ rtPc' = "connecting"
                    /\ failedAt' = "none"
                    /\ UNCHANGED wildcard
    /\ UNCHANGED <<loginReady, sessState, loops, inviteTask, inviteProcessed, rtStopped>>

\* "await self.session.start(code=code)" ends: the socket is open and the
\* receive task is created, then _on_notify is registered and the login
\* request is sent; or ws_connect raised and the session closed itself.
RtConnect(ok) ==
    /\ UNCHANGED notRtVars
    /\ rtPc = "connecting"
    /\ IF ok
       THEN /\ sessState' = "open"
            /\ wildcard' = wildcard + 1
            /\ rtPc' = "login"
            /\ UNCHANGED failedAt
       ELSE /\ sessState' = "none"
            /\ wildcard' = 0
            /\ rtPc' = "raised"
            /\ failedAt' = "connect"
    /\ UNCHANGED <<running, loginReady, loops, inviteTask, inviteProcessed, rtStarts,
                   rtStopped>>

\* how "await self.user.login(...)" and the check of the reply can end
LoginResults == {"ok", "error", "no_basic", "disconnected"}

\* The login call ends: a reply with basic, a reply without it, an error
\* reply or a timeout, or the receive loop ended and failed the call.
RtLogin(result) ==
    /\ UNCHANGED notRtVars
    /\ rtPc = "login"
    /\ result \in {"ok", "no_basic", "disconnected"} => sessState = "open"
    /\ IF result = "ok"
       THEN /\ loginReady' = TRUE
            /\ rtPc' = "bag"
            /\ UNCHANGED <<failedAt, sessState>>
       ELSE /\ rtPc' = "raised"
            /\ failedAt' = "login"
            /\ sessState' = IF result = "disconnected" THEN "stale" ELSE sessState
            /\ UNCHANGED loginReady
    /\ UNCHANGED <<running, wildcard, loops, inviteTask, inviteProcessed, rtStarts,
                   rtStopped>>

\* "await self.warehouse.get_bag()" ends, with a bag or an error that is
\* swallowed: the invite task is created once per runtime, the schedule is
\* reset, and start() creates the heartbeat and scheduler tasks.
RtBag ==
    /\ UNCHANGED notRtVars
    /\ rtPc = "bag"
    /\ inviteTask' = IF inviteProcessed THEN inviteTask ELSE "running"
    /\ inviteProcessed' = TRUE
    /\ loops' = TRUE
    /\ rtPc' = "returned"
    /\ UNCHANGED <<running, loginReady, sessState, wildcard, failedAt, rtStarts, rtStopped>>

\* _process_invite_codes_once ends.
RtInviteDone ==
    /\ UNCHANGED notRtVars
    /\ inviteTask = "running"
    /\ inviteTask' = "done"
    /\ UNCHANGED <<running, loginReady, sessState, wildcard, loops, inviteProcessed, rtPc,
                   failedAt, rtStarts, rtStopped>>

\* The receive loop ends on its own while no login call is waiting.
RtConnectionLost ==
    /\ UNCHANGED notRtVars
    /\ sessState = "open"
    /\ rtPc # "login"
    /\ sessState' = "stale"
    /\ UNCHANGED <<running, loginReady, wildcard, loops, inviteTask, inviteProcessed, rtPc,
                   failedAt, rtStarts, rtStopped>>

\* stop(), called while no start() is in progress: nothing when not
\* running; else the loops and the invite task are cancelled and awaited,
\* and session.stop() closes the session and clears the dispatcher,
\* raising CancelledError when it had a live receive task to cancel.
RtStop ==
    /\ UNCHANGED notRtVars
    /\ ~InStart
    /\ IF ~running
       THEN /\ rtStopped' = "returned"
            /\ UNCHANGED <<running, loginReady, sessState, wildcard, loops, inviteTask>>
       ELSE /\ running' = FALSE
            /\ loginReady' = FALSE
            /\ loops' = FALSE
            /\ inviteTask' = IF inviteTask = "running" THEN "done" ELSE inviteTask
            /\ sessState' = "none"
            /\ wildcard' = 0
            /\ rtStopped' = IF sessState = "open" THEN "cancelled" ELSE "returned"
    /\ UNCHANGED <<inviteProcessed, rtPc, failedAt, rtStarts>>

RtNext ==
    \/ \E codeEmpty \in BOOLEAN : RtStart(codeEmpty)
    \/ \E ok \in BOOLEAN : RtConnect(ok)
    \/ \E result \in LoginResults : RtLogin(result)
    \/ RtBag
    \/ RtInviteDone
    \/ RtConnectionLost
    \/ RtStop

\* ------------------------------------------------ AccountRuntime claims

\* C19: when start() has failed, at whichever step, the gateway session is
\* stopped and no task the runtime spawned is running.
C19_FailedStartLeavesNothing ==
    rtPc = "raised"
    => /\ sessState = "none"
       /\ ~loops
       /\ inviteTask # "running"

\* ================================== AccountRuntime: scheduler loop

\* times the gateway goes down
MaxOutages == 2
\* back-off slept kept in the record
MaxSleeps == 7
\* entries of the "*" list counted
MaxWildcard == 3

\* "backoff = min(30, backoff * 2)"
BackoffCap == 30
NextBackoff(b) == Min(BackoffCap, b * 2)

SchedInit0 ==
    /\ backoff = 1
    /\ schedPc = "top"
    /\ gatewayUp = TRUE
    /\ outages = 0
    /\ slept = <<>>

\* a runtime whose start() has succeeded: logged in on an open session,
\* its loops running
SchedRtInit ==
    /\ running = TRUE
    /\ loginReady = TRUE
    /\ sessState = "open"
    /\ wildcard = 1
    /\ loops = TRUE
    /\ inviteTask = "done"
    /\ inviteProcessed = TRUE
    /\ rtPc = "returned"
    /\ failedAt = "none"
    /\ rtStarts = 1
    /\ rtStopped = "none"

\* how the receive loop of an open session ends when the connection is
\* lost: on a CLOSE frame or a frame that does not decode the socket object
\* stays and is not closed; on an end of stream or an error it is closed
LostStates == {"stale", "closed"}

\* the gateway goes down; the connection in use is lost, at once or not
GatewayDown(lost) ==
    /\ UNCHANGED notSchedVars
    /\ gatewayUp
    /\ outages < MaxOutages
    /\ outages' = outages + 1
    /\ gatewayUp' = FALSE
    /\ sessState' = IF sessState = "open" /\ schedPc # "login" THEN lost ELSE sessState
    /\ UNCHANGED <<running, loginReady, wildcard, loops, inviteTask, inviteProcessed, rtPc,
                   failedAt, rtStarts, rtStopped>>
    /\ UNCHANGED <<backoff, schedPc, slept>>

\* the gateway accepts connections again
GatewayBack ==
    /\ UNCHANGED notSchedVars
    /\ ~gatewayUp
    /\ gatewayUp' = TRUE
    /\ UNCHANGED rtVars
    /\ UNCHANGED <<backoff, schedPc, outages, slept>>

\* the receive loop of the open session ends on its own while the gateway
\* is up: it was sent a CLOSE frame or a frame that does not decode
ReceiveLoopEnds ==
    /\ UNCHANGED notSchedVars
    /\ gatewayUp
    /\ sessState = "open"
    /\ schedPc # "login"
    /\ outages < MaxOutages
    /\ outages' = outages + 1
    /\ sessState' = "stale"
    /\ UNCHANGED <<running, loginReady, wildcard, loops, inviteTask, inviteProcessed, rtPc,
                   failedAt, rtStarts, rtStopped>>
    /\ UNCHANGED <<backoff, schedPc, gatewayUp, slept>>

\* a request on the session gets its reply
SessionWorks == sessState = "open" /\ gatewayUp

\* _heartbeat_loop: the heartbeat request of a login-ready runtime fails
\* (not connected, disconnected, timed out): "except Exception:
\* self.connected = False; self.login_ready = False", and the loop goes on
HeartbeatFails ==
    /\ UNCHANGED notSchedVars
    /\ running /\ loops
    /\ loginReady
    /\ ~SessionWorks
    /\ loginReady' = FALSE
    /\ UNCHANGED <<running, sessState, wildcard, loops, inviteTask, inviteProcessed, rtPc,
                   failedAt, rtStarts, rtStopped>>
    /\ UNCHANGED schedVars

\* _scheduler_loop at the head of "while self.running": not login-ready,
\* it goes to sleep for backoff; login-ready, it does the work that is due
\* and slept a second, or an Exception of the work sends it to the
\* "except Exception" sleep
SchedTop(workOk) ==
    /\ UNCHANGED notSchedVars
    /\ running /\ loops
    /\ schedPc = "top"
    /\ IF ~loginReady
       THEN /\ schedPc' = "backoff"
            /\ slept' = IF Len(slept) < MaxSleeps THEN Append(slept, backoff) ELSE slept
       ELSE /\ schedPc' = IF workOk THEN "top" ELSE "failed"
            /\ UNCHANGED slept
    /\ UNCHANGED rtVars
    /\ UNCHANGED <<backoff, gatewayUp, outages>>

\* "await self.session.start(code=code)" returns at once when the session
\* says it is connected
StartIsNoOp == SessionConnected

\* the back-off sleep is over: backoff doubles up to its cap and
\* _connect_and_login begins; session.start() opens a socket unless the
\* session says it is connected, and then _on_notify is registered and the
\* login request sent
SchedWake ==
    /\ UNCHANGED notSchedVars
    /\ schedPc = "backoff"
    /\ backoff' = NextBackoff(backoff)
    /\ IF StartIsNoOp
       THEN /\ schedPc' = "login"
            /\ wildcard' = Min(MaxWildcard, wildcard + 1)
       ELSE /\ schedPc' = "connecting"
            /\ UNCHANGED wildcard
    /\ UNCHANGED <<running, loginReady, sessState, loops, inviteTask, inviteProcessed, rtPc,
                   failedAt, rtStarts, rtStopped>>
    /\ UNCHANGED <<gatewayUp, outages, slept>>

\* ws_connect ends: with a socket when the gateway accepts connections,
\* else with an error after which the session closes itself
SchedConnect ==
    /\ UNCHANGED notSchedVars
    /\ schedPc = "connecting"
    /\ IF gatewayUp
       THEN /\ sessState' = "open"
            /\ wildcard' = Min(MaxWildcard, wildcard + 1)
            /\ schedPc' = "login"
       ELSE /\ sessState' = "none"
            /\ wildcard' = 0
            /\ schedPc' = "failed"
    /\ UNCHANGED <<running, loginReady, loops, inviteTask, inviteProcessed, rtPc, failedAt,
                   rtStarts, rtStopped>>
    /\ UNCHANGED <<backoff, gatewayUp, outages, slept>>

\* the login call ends: with the reply on a session that works, and then
\* the runtime is login-ready and "backoff = 1"; else with an error (a
\* timeout, or the receive loop ending)
SchedLogin(lost) ==
    /\ UNCHANGED notSchedVars
    /\ schedPc = "login"
    /\ IF SessionWorks
       THEN /\ loginReady' = TRUE
            /\ backoff' = 1
            /\ slept' = <<>>
            /\ schedPc' = "top"
            /\ UNCHANGED sessState
       ELSE /\ schedPc' = "failed"
            /\ sessState' = IF sessState = "open" THEN lost ELSE sessState
            /\ UNCHANGED <<loginReady, backoff, slept>>
    /\ UNCHANGED <<running, wildcard, loops, inviteTask, inviteProcessed, rtPc, failedAt,
                   rtStarts, rtStopped>>
    /\ UNCHANGED <<gatewayUp, outages>>

\* "except Exception: await asyncio.sleep(1.0)" is over
SchedRetry ==
    /\ UNCHANGED notSchedVars
    /\ schedPc = "failed"
    /\ schedPc' = "top"
    /\ UNCHANGED rtVars
    /\ UNCHANGED <<backoff, gatewayUp, outages, slept>>

SchedNext ==
    \/ \E lost \in LostStates : GatewayDown(lost)
    \/ GatewayBack
    \/ ReceiveLoopEnds
    \/ HeartbeatFails
    \/ \E workOk \in BOOLEAN : SchedTop(workOk)
    \/ SchedWake
    \/ SchedConnect
    \/ \E lost \in LostStates \cup {"open"} : SchedLogin(lost)
    \/ SchedRetry

\* the loops run whenever they can, and a gateway that is down comes back
SchedFairness ==
    /\ WF_vars(GatewayBack)
    /\ WF_vars(HeartbeatFails)
    /\ WF_vars(\E workOk \in BOOLEAN : SchedTop(workOk))
    /\ WF_vars(SchedWake)
    /\ WF_vars(SchedConnect)
    /\ WF_vars(\E lost \in LostStates \cup {"open"} : SchedLogin(lost))
    /\ WF_vars(SchedRetry)

\* --------------------------------------------------- scheduler claims

\* the slept of a run of failed attempts: 1, 2, 4, 8, 16, 30, 30, ...
RECURSIVE BackoffSeries(_)
BackoffSeries(n) ==
    IF n = 0 THEN <<>>
    ELSE IF n = 1 THEN <<1>>
    ELSE LET front == BackoffSeries(n - 1) IN Append(front, Min(BackoffCap, 2 * front[n - 1]))

C30_LoopsKeepRunning == running /\ loops /\ slept = BackoffSeries(Len(slept))

\* C30: once the runtime is marked not login-ready the loops keep
\* running, the scheduler slept 1, 2, 4, ... up to 30 seconds before its
\* attempts to connect and log in, starting at 1 again after a success, and
\* with the gateway accepting connections again the runtime becomes
\* login-ready on a session that works.
C30_ReconnectsEventually ==
    /\ []C30_LoopsKeepRunning
    /\ ~loginReady ~> (loginReady /\ SessionWorks)

\* C37: across reconnects the runtime's handler is registered at most once
\* on its session (emit calls every entry of the list, so a notification
\* is processed once per entry), and exactly once while the runtime is
\* logged in on an open session.
C37_HandlerRegisteredOnce ==
    /\ wildcard <= 1
    /\ (loginReady /\ sessState = "open") => wildcard = 1

\* ================================== AccountRuntime: farm operation

\* lands a direct _auto_plant call is given
MaxLands == 4
\* user_state["gold"]
MaxGold == 5

Req(req, arg, ok) == [req |-> req, arg |-> arg, ok |-> ok]

NoPlantCall == [called |-> FALSE, dead_ids |-> <<>>, empty_ids |-> <<>>]
NoPlantOut == [log |-> <<>>, result |-> "none", planted |-> 0, gold |-> 0]

\* the lands of one farm, by what analyze_lands finds on them
NoLands ==
    [need_weed |-> <<>>, need_bug |-> <<>>, need_water |-> <<>>, harvestable |-> <<>>,
     dead |-> <<>>, empty |-> <<>>, unlockable |-> <<>>, upgradable |-> <<>>]

Farms ==
    [need_weed : {<<>>, <<1>>}, need_bug : {<<>>, <<2>>}, need_water : {<<>>, <<3>>},
     harvestable : {<<>>, <<4, 5>>}, dead : {<<>>, <<6>>}, empty : {<<>>, <<7>>},
     unlockable : {<<>>}, upgradable : {<<>>, <<8>>}]

\* a seed of goods id 5566 and a price, stock known or not
PlantEnvs ==
    [shop : {"fails", "none", "seed"}, goods_id : {0, 5566}, price : {0, 2},
     stock : {NotANum} \cup {Num(n) : n \in 0..MaxLands}, gold : 0..MaxGold,
     removeOk : BOOLEAN, buyOk : BOOLEAN, plantOk : BOOLEAN]

\* the plant step of a farm operation: the shop fails or offers the seed
FarmPlantEnvs ==
    {e \in PlantEnvs :
        /\ e.goods_id = 5566 /\ e.price = 2 /\ e.gold = MaxGold
        /\ e.stock \in {NotANum, Num(1)}
        /\ e.removeOk /\ e.buyOk /\ e.plantOk}

QuietPlantEnv ==
    [shop |-> "seed", goods_id |-> 5566, price |-> 2, stock |-> Num(1), gold |-> 0,
     removeOk |-> TRUE, buyOk |-> TRUE, plantOk |-> TRUE]

FarmInit0 ==
    /\ farmPc = "idle"
    /\ farmLog = <<>>
    /\ harvest_ids = <<>>
    /\ plantArgs = NoPlantCall
    /\ plantOut = NoPlantOut
    /\ sells = 0

FarmQuiet ==
    /\ analyzed = NoLands
    /\ automation = [sell |-> TRUE, land_upgrade |-> TRUE]
    /\ plantEnv = QuietPlantEnv
    /\ FarmInit0

FarmInit ==
    /\ analyzed \in Farms
    /\ automation \in [sell : BOOLEAN, land_upgrade : BOOLEAN]
    /\ plantEnv \in FarmPlantEnvs
    /\ FarmInit0

PlantInit ==
    /\ analyzed = NoLands
    /\ automation = [sell |-> TRUE, land_upgrade |-> TRUE]
    /\ plantEnv \in PlantEnvs
    /\ FarmInit0

\* _auto_plant: lands_to_plant without ids <= 0 and without repeats, in order
RECURSIVE UniqueLands(_)
UniqueLands(lands) ==
    IF lands = <<>>
    THEN <<>>
    ELSE LET n == Len(lands)
             front == UniqueLands(SubSeq(lands, 1, n - 1))
         IN
         IF lands[n] <= 0 \/ \E i \in DOMAIN front : front[i] = lands[n]
         THEN front
         ELSE Append(front, lands[n])

\* lands_to_plant[:count]
Prefix(lands, count) == SubSeq(lands, 1, Min(Max(count, 0), Len(lands)))

\* "lands_to_plant = lands_to_plant[:can_plant]"
TrimmedNot(lands, can_plant) == lands

Trimmed(lands, can_plant) == Prefix(lands, can_plant)

\* "affordable = max(0, gold // max(1, price))"
Affordable(gold, price) == Max(0, gold \div Max(1, price))

PlantDone(log, result, planted, gold) ==
    [log |-> log, result |-> result, planted |-> planted, gold |-> gold]

\* _auto_plant(dead_ids, empty_ids) in the surroundings e: the requests it
\* sends, how it ends, what it returns and the gold it leaves in user_state.
\* The Plant requests, one per land, are one entry of the log; the Fertilize
\* requests that follow a successful planting are not listed.
AutoPlant(dead_ids, empty_ids, e) ==
    LET removed == IF dead_ids # <<>>
                   THEN <<Req("remove_plant", dead_ids, e.removeOk)>>
                   ELSE <<>>
        targets == UniqueLands(empty_ids \o dead_ids)
        target_count == Len(targets)
        known == e.stock.num
        seed_stock == e.stock.val
        canBuy == e.goods_id > 0 /\ e.price > 0
        short == known /\ seed_stock < target_count
        buy_count == IF ~known
                     THEN target_count
                     ELSE IF short /\ canBuy
                     THEN Min(target_count - seed_stock, Affordable(e.gold, e.price))
                     ELSE 0
        can_plant == IF canBuy THEN seed_stock + buy_count ELSE seed_stock
        planned == IF short /\ can_plant < target_count
                   THEN Trimmed(targets, can_plant)
                   ELSE targets
        buys == canBuy /\ buy_count > 0
        bought == IF buys
                  THEN <<Req("buy_goods", <<e.goods_id, buy_count, e.price>>, e.buyOk)>>
                  ELSE <<>>
        fallback_count == Min(seed_stock, Len(planned))
        lands == IF buys /\ ~e.buyOk /\ known THEN Prefix(planned, fallback_count) ELSE planned
        gold == IF buys /\ e.buyOk THEN Max(0, e.gold - e.price * buy_count) ELSE e.gold
        asked == removed \o <<Req("get_shop_info", <<>>, e.shop # "fails")>>
        checked == asked \o <<Req("get_bag", <<>>, known)>>
    IN
    IF targets = <<>>
    THEN PlantDone(removed, "returned", 0, e.gold)
    ELSE IF e.shop = "fails"
    THEN PlantDone(asked, "raised", 0, e.gold)
    ELSE IF e.shop = "none"
    THEN PlantDone(asked, "returned", 0, e.gold)
    ELSE IF short /\ can_plant <= 0
    THEN PlantDone(checked, "returned", 0, e.gold)
    ELSE IF buys /\ ~e.buyOk /\ known /\ fallback_count <= 0
    THEN PlantDone(checked \o bought, "returned", 0, gold)
    ELSE PlantDone(checked \o bought \o <<Req("plant", lands, e.plantOk)>>, "returned",
                   IF e.plantOk THEN Len(lands) ELSE 0, gold)

\* _do_farm_operation("all") up to the clear steps: get_all_lands and
\* analyze_lands
FarmBegin(ok) ==
    /\ UNCHANGED notFarmVars
    /\ farmPc = "idle"
    /\ farmLog' = Append(farmLog, Req("get_all_lands", <<>>, ok))
    /\ farmPc' = IF ok THEN "weed" ELSE "raised"
    /\ UNCHANGED <<analyzed, automation, plantEnv, harvest_ids, plantArgs, plantOut, sells>>

ClearSteps == <<"weed", "bug", "water">>
AfterClear == [weed |-> "bug", bug |-> "water", water |-> "harvest"]
ClearLands == [weed |-> analyzed.need_weed, bug |-> analyzed.need_bug,
               water |-> analyzed.need_water]

\* one of the three clear steps: its request is sent when analyze_lands
\* found lands for it, and an Exception it raises is swallowed
FarmClear(step, ok) ==
    /\ UNCHANGED notFarmVars
    /\ farmPc = step
    /\ farmLog' = IF ClearLands[step] # <<>>
                  THEN Append(farmLog, Req(step, ClearLands[step], ok))
                  ELSE farmLog
    /\ farmPc' = AfterClear[step]
    /\ UNCHANGED <<analyzed, automation, plantEnv, harvest_ids, plantArgs, plantOut, sells>>

\* the harvest step: "except Exception: harvest_ids = []"
FarmHarvest(ok) ==
    /\ UNCHANGED notFarmVars
    /\ farmPc = "harvest"
    /\ IF analyzed.harvestable # <<>>
       THEN /\ farmLog' = Append(farmLog, Req("harvest", analyzed.harvestable, ok))
            /\ harvest_ids' = IF ok THEN analyzed.harvestable ELSE <<>>
       ELSE UNCHANGED <<farmLog, harvest_ids>>
    /\ farmPc' = "plant"
    /\ UNCHANGED <<analyzed, automation, plantEnv, plantArgs, plantOut, sells>>

\* the plant step: _auto_plant(dead + harvest_ids, empty); what it raises
\* leaves _do_farm_operation
FarmPlant ==
    /\ UNCHANGED notFarmVars
    /\ farmPc = "plant"
    /\ LET dead_ids == analyzed.dead \o harvest_ids
           out == AutoPlant(dead_ids, analyzed.empty, plantEnv)
       IN
       /\ plantArgs' = [called |-> TRUE, dead_ids |-> dead_ids, empty_ids |-> analyzed.empty]
       /\ plantOut' = out
       /\ farmLog' = farmLog \o out.log
       /\ farmPc' = IF out.result = "raised" THEN "raised" ELSE "upgrade"
    /\ UNCHANGED <<analyzed, automation, plantEnv, harvest_ids, sells>>

RECURSIVE EachLand(_, _, _)
EachLand(req, lands, ok) ==
    IF lands = <<>>
    THEN <<>>
    ELSE <<Req(req, <<Head(lands)>>, ok)>> \o EachLand(req, Tail(lands), ok)

\* the upgrade step, when automation.land_upgrade is on: one request per
\* unlockable and per upgradable land, Exceptions swallowed
FarmUpgrade(ok) ==
    /\ UNCHANGED notFarmVars
    /\ farmPc = "upgrade"
    /\ farmLog' = IF automation.land_upgrade
                  THEN farmLog \o EachLand("unlock_land", analyzed.unlockable, ok)
                               \o EachLand("upgrade_land", analyzed.upgradable, ok)
                  ELSE farmLog
    /\ farmPc' = "sell"
    /\ UNCHANGED <<analyzed, automation, plantEnv, harvest_ids, plantArgs, plantOut, sells>>

\* "if harvest_ids and automation.sell: await self._auto_sell()", whose
\* get_bag may raise
FarmSell(ok) ==
    /\ UNCHANGED notFarmVars
    /\ farmPc = "sell"
    /\ IF harvest_ids # <<>> /\ automation.sell
       THEN /\ sells' = sells + 1
            /\ farmLog' = Append(farmLog, Req("sell_all_fruits", <<>>, ok))
            /\ farmPc' = IF ok THEN "returned" ELSE "raised"
       ELSE /\ farmPc' = "returned"
            /\ UNCHANGED <<sells, farmLog>>
    /\ UNCHANGED <<analyzed, automation, plantEnv, harvest_ids, plantArgs, plantOut>>

FarmNext ==
    \/ \E ok \in BOOLEAN : FarmBegin(ok)
    \/ \E step \in {"weed", "bug", "water"}, ok \in BOOLEAN : FarmClear(step, ok)
    \/ \E ok \in BOOLEAN : FarmHarvest(ok)
    \/ FarmPlant
    \/ \E ok \in BOOLEAN : FarmUpgrade(ok)
    \/ \E ok \in BOOLEAN : FarmSell(ok)

\* the lands a direct call of _auto_plant is given
DeadLists == {<<>>, <<1>>, <<1, 2>>}
EmptyLists == {SubSeq(<<11, 12, 13, 14>>, 1, n) : n \in 0..MaxLands} \cup {<<2, 0, 2, 3>>}

\* _auto_plant(dead_ids, empty_ids), called on its own
AutoPlantCall(dead_ids, empty_ids) ==
    /\ UNCHANGED notFarmVars
    /\ farmPc = "idle"
    /\ ~plantArgs.called
    /\ plantArgs' = [called |-> TRUE, dead_ids |-> dead_ids, empty_ids |-> empty_ids]
    /\ plantOut' = AutoPlant(dead_ids, empty_ids, plantEnv)
    /\ farmLog' = plantOut'.log
    /\ UNCHANGED <<analyzed, automation, plantEnv, farmPc, harvest_ids, sells>>

PlantNext == \E dead_ids \in DeadLists, empty_ids \in EmptyLists : AutoPlantCall(dead_ids, empty_ids)

\* ------------------------------------------- farm operation claims

StepRank ==
    [get_all_lands |-> 0, weed |-> 1, bug |-> 2, water |-> 3, harvest |-> 4,
     remove_plant |-> 5, get_shop_info |-> 5, get_bag |-> 5, buy_goods |-> 5, plant |-> 5,
     unlock_land |-> 6, upgrade_land |-> 6, sell_all_fruits |-> 7]

Sent(req) == {i \in DOMAIN farmLog : farmLog[i].req = req}

\* the harvest request was sent and succeeded
Harvested == \E i \in Sent("harvest") : farmLog[i].ok

\* C25: a farm operation in mode all sends its requests in the order weed,
\* bug, water, harvest, plant, upgrade, sell; whatever the outcome of the
\* weed, bug and water requests, once the operation is over the harvestable
\* lands have been harvested, _auto_plant has been called with the dead
\* plus the harvested lands and with the empty lands, and _auto_sell has
\* run once if the harvest succeeded and automation.sell is on, and not at
\* all otherwise.
C25_StepsIndependent ==
    /\ \A i, j \in DOMAIN farmLog :
          i < j => StepRank[farmLog[i].req] <= StepRank[farmLog[j].req]
    /\ (farmPc \in {"returned", "raised"} /\ farmLog[1].ok) =>
          /\ analyzed.harvestable # <<>> =>
                \E i \in Sent("harvest") : farmLog[i].arg = analyzed.harvestable
          /\ plantArgs.called
          /\ plantArgs.dead_ids =
                analyzed.dead \o (IF Harvested THEN analyzed.harvestable ELSE <<>>)
          /\ plantArgs.empty_ids = analyzed.empty
          /\ sells = IF Harvested /\ automation.sell THEN 1 ELSE 0

\* the lands a call of _auto_plant sets out to plant: the empty lands, then
\* the dead ones, without repeats
Targets == UniqueLands(plantArgs.empty_ids \o plantArgs.dead_ids)

BuyRequests == {i \in DOMAIN plantOut.log : plantOut.log[i].req = "buy_goods"}
PlantRequests == {i \in DOMAIN plantOut.log : plantOut.log[i].req = "plant"}

\* the lands plant requests were sent for
PlantLands ==
    IF PlantRequests = {} THEN <<>> ELSE plantOut.log[CHOOSE i \in PlantRequests : TRUE].arg

\* a call of _auto_plant that found a seed in the shop and its stock in the bag
StockKnown ==
    /\ plantArgs.called
    /\ plantEnv.shop = "seed"
    /\ plantEnv.stock.num
    /\ Targets # <<>>

\* the shop sells the chosen seed
Purchasable == plantEnv.goods_id > 0 /\ plantEnv.price > 0

\* b = min(n - s, g // p) of a purchasable seed in short supply
Missing ==
    IF Purchasable /\ plantEnv.stock.val < Len(Targets)
    THEN Min(Len(Targets) - plantEnv.stock.val, plantEnv.gold \div plantEnv.price)
    ELSE 0

\* the seeds the call has bought
Purchased == IF \E i \in BuyRequests : plantOut.log[i].ok THEN Missing ELSE 0

\* the target lands after the first s + b
Remaining ==
    {Targets[k] : k \in {k \in DOMAIN Targets : k > plantEnv.stock.val + Missing}}

LandRequests == {i \in DOMAIN plantOut.log : plantOut.log[i].req \in {"remove_plant", "plant"}}

\* C26: when the stock s of the chosen seed is known, _auto_plant sends at
\* most one buy request, for b = min(n - s, g // p) seeds of a seed the
\* shop sells when b > 0 and none otherwise, and plant requests for the
\* first target lands only: for all n of them when s >= n, for the first
\* s + b when the purchase went through and for the first s when it
\* failed, so never for more lands than seeds in stock plus seeds bought.
\* The remaining lands get no plant request.
C26_PlantsWithinStockAndPurchase ==
    StockKnown =>
        LET s == plantEnv.stock.val
            n == Len(Targets)
        IN
        /\ plantOut.result = "returned"
        /\ Cardinality(BuyRequests) <= 1
        /\ Cardinality(PlantRequests) <= 1
        /\ Missing > 0 <=> BuyRequests # {}
        /\ \A i \in BuyRequests :
              plantOut.log[i].arg = <<plantEnv.goods_id, Missing, plantEnv.price>>
        /\ PlantLands = Prefix(Targets, IF s >= n THEN n ELSE s + Purchased)
        /\ Len(PlantLands) <= s + Purchased
        /\ \A k \in DOMAIN PlantLands : PlantLands[k] \notin Remaining
        /\ plantOut.planted <= Len(PlantLands)

\* C26 as stated: as above, and no request of the call names one of the
\* remaining lands.
C26_RemainingLandsUntouched ==
    /\ C26_PlantsWithinStockAndPurchase
    /\ StockKnown =>
          \A i \in LandRequests :
             \A k \in DOMAIN plantOut.log[i].arg : plantOut.log[i].arg[k] \notin Remaining

\* one seed in the bag and gold for one more, four lands to plant: one seed
\* is bought and the first two lands are planted
C26_BuysOnePlantsTwo ==
    /\ StockKnown
    /\ plantEnv.stock = Num(1)
    /\ plantEnv.price = 2
    /\ plantEnv.gold = 3
    /\ Targets = <<11, 12, 13, 14>>
    /\ \E i \in BuyRequests : plantOut.log[i] = Req("buy_goods", <<5566, 1, 2>>, TRUE)
    /\ PlantLands = <<11, 12>>
    /\ plantOut.planted = 2
    /\ plantOut.gold = 1

\* ================================================== FriendService

\* FriendService.OP_NAMES: put weeds, put insects, weed, bug, water, steal
OpPutWeeds == 10003
OpPutInsects == 10004
OpWeed == 10005
OpBug == 10006
OpWater == 10007
OpSteal == 10008
OpIds == {OpPutWeeds, OpPutInsects, OpWeed, OpBug, OpWater, OpSteal}

\* the operation id do_friend_operation probes for an op
ProbeId == [steal |-> OpSteal, water |-> OpWater, weed |-> OpWeed, bug |-> OpBug]
ProbedOps == DOMAIN ProbeId
\* the request that carries out an op, and the day's quota it draws on
MutatingRequest == [steal |-> "steal_harvest", water |-> "help_water", weed |-> "help_weed",
                    bug |-> "help_bug"]
QuotaOf == [steal_harvest |-> OpSteal, help_water |-> OpWater, help_weed |-> OpWeed,
            help_bug |-> OpBug, put_insects |-> OpPutInsects, put_weeds |-> OpPutWeeds]
FriendOps == ProbedOps \cup {"bad", "dance"}

\* a row of _operation_limits, or no row
NoRow == [row |-> FALSE, dayTimes |-> 0, dayTimesLimit |-> 0]
Row(times, limit) == [row |-> TRUE, dayTimes |-> times, dayTimesLimit |-> limit]
LimitRows == {NoRow, Row(0, 1), Row(1, 1), Row(1, 0)}

\* FriendService.can_operate
CanOperate(limits, operation_id) ==
    LET row == limits[operation_id] IN
    IF ~row.row
    THEN TRUE
    ELSE IF row.dayTimesLimit <= 0
    THEN TRUE
    ELSE row.dayTimes < row.dayTimesLimit

NoProbe == [asked |-> FALSE, answered |-> FALSE, can_operate |-> FALSE, can_steal_num |-> 0]
FailedProbe == [asked |-> TRUE, answered |-> FALSE, can_operate |-> FALSE, can_steal_num |-> 0]
ProbeReplies ==
    {FailedProbe} \cup
    [asked : {TRUE}, answered : {TRUE}, can_operate : BOOLEAN, can_steal_num : 0..2]

NoResult == [ok |-> FALSE, count |-> 0, message |-> "none"]
Result(ok, count, message) == [ok |-> ok, count |-> count, message |-> message]

FriendInit0 ==
    /\ friendPc = "idle"
    /\ friendLog = <<>>
    /\ friendTargets = <<>>
    /\ probed = NoProbe
    /\ friendResult = NoResult

FriendQuiet ==
    /\ friend_gid = 7
    /\ friendOp = "steal"
    /\ friendLands = [targets |-> <<>>, canPutBug |-> <<>>, canPutWeed |-> <<>>]
    /\ operation_limits = [id \in OpIds |-> NoRow]
    /\ FriendInit0

\* one call, of any op on any friend farm, with a row for one operation in
\* the cache or none
FriendInit ==
    /\ friend_gid \in {0, 7}
    /\ friendOp \in FriendOps
    /\ friendLands \in [targets : {<<>>, <<1>>, <<1, 2>>}, canPutBug : {<<>>, <<3>>},
                        canPutWeed : {<<>>, <<4>>}]
    /\ \E cached \in OpIds, row \in LimitRows :
          operation_limits = [id \in OpIds |-> IF id = cached THEN row ELSE NoRow]
    /\ FriendInit0

\* do_friend_operation up to the analysis: the gid check and enter_friend_farm
FriendEnter(ok) ==
    /\ UNCHANGED notFriendVars
    /\ friendPc = "idle"
    /\ IF friend_gid <= 0
       THEN /\ friendResult' = Result(FALSE, 0, "invalid_friend")
            /\ friendPc' = "returned"
            /\ UNCHANGED friendLog
       ELSE /\ friendLog' = Append(friendLog, Req("Enter", friend_gid, ok))
            /\ friendResult' = IF ok THEN friendResult ELSE Result(FALSE, 0, "enter_failed")
            /\ friendPc' = IF ok THEN "analyzed" ELSE "returned"
    /\ UNCHANGED <<friend_gid, friendOp, friendLands, operation_limits, friendTargets, probed>>

\* check_can_operate_remote: "except Exception: return True, 0"
CheckCanOperateRemote(reply) ==
    IF reply.answered
    THEN [can_operate |-> reply.can_operate, can_num |-> reply.can_steal_num]
    ELSE [can_operate |-> TRUE, can_num |-> 0]

\* the targets of the op, and for steal, water, weed and bug the
\* CheckCanOperate probe; bad has no probe
FriendCheck(reply) ==
    /\ UNCHANGED notFriendVars
    /\ friendPc = "analyzed"
    /\ IF friendOp \in ProbedOps
       THEN IF friendLands.targets = <<>>
            THEN /\ friendResult' = Result(TRUE, 0, "no_targets")
                 /\ friendPc' = "leave"
                 /\ UNCHANGED <<friendLog, friendTargets, probed>>
            ELSE LET got == CheckCanOperateRemote(reply) IN
                 /\ friendLog' = Append(friendLog,
                                    Req("CheckCanOperate", ProbeId[friendOp], reply.answered))
                 /\ probed' = reply
                 /\ IF ~got.can_operate
                    THEN /\ friendResult' = Result(TRUE, 0, "quota_exhausted")
                         /\ friendPc' = "leave"
                         /\ UNCHANGED friendTargets
                    ELSE /\ friendTargets' = IF friendOp = "steal" /\ got.can_num > 0
                                             THEN Prefix(friendLands.targets, got.can_num)
                                             ELSE friendLands.targets
                         /\ friendPc' = "mutate"
                         /\ UNCHANGED friendResult
       ELSE IF friendOp = "bad"
       THEN /\ friendPc' = "mutate"
            /\ UNCHANGED <<friendLog, friendTargets, probed, friendResult>>
       ELSE /\ friendResult' = Result(FALSE, 0, "unknown_op")
            /\ friendPc' = "leave"
            /\ UNCHANGED <<friendLog, friendTargets, probed>>
    /\ UNCHANGED <<friend_gid, friendOp, friendLands, operation_limits>>

\* update_operation_limits with the limits a reply carries, if any
UpdateOperationLimits(limits, carried, operation_id, row) ==
    IF carried THEN [limits EXCEPT ![operation_id] = row] ELSE limits

\* _run_batch_with_fallback: the batch request, and when it fails one
\* request per land
RunBatchWithFallback(req, targets, batchOk, singleOk) ==
    IF targets = <<>>
    THEN [log |-> <<>>, count |-> 0]
    ELSE IF batchOk
    THEN [log |-> <<Req(req, targets, TRUE)>>, count |-> Len(targets)]
    ELSE [log |-> <<Req(req, targets, FALSE)>> \o EachLand(req, targets, singleOk),
          count |-> IF singleOk THEN Len(targets) ELSE 0]

\* the requests that carry out the op. steal, water, weed, bug: a batch with
\* fallback, and after a steal on_after_steal, whose Exception makes the
\* call answer ok = False. bad: put_insects then put_weeds, one request
\* per land. A reply may carry the operation limits of the day.
FriendMutate(batchOk, singleOk, afterOk, carried) ==
    /\ UNCHANGED notFriendVars
    /\ friendPc = "mutate"
    /\ IF friendOp = "bad"
       THEN LET bugs == EachLand("put_insects", friendLands.canPutBug, singleOk)
                weeds == EachLand("put_weeds", friendLands.canPutWeed, singleOk)
                total == IF singleOk THEN Len(bugs) + Len(weeds) ELSE 0
            IN
            /\ friendLog' = friendLog \o bugs \o weeds
            /\ friendResult' = Result(TRUE, total, IF total <= 0 THEN "nothing_done" ELSE "done")
            /\ operation_limits' =
                  UpdateOperationLimits(operation_limits, carried /\ total > 0,
                                        OpPutInsects, Row(1, 1))
       ELSE LET req == MutatingRequest[friendOp]
                ran == RunBatchWithFallback(req, friendTargets, batchOk, singleOk)
            IN
            /\ friendLog' = friendLog \o ran.log
            /\ friendResult' = IF friendOp = "steal" /\ ran.count > 0 /\ ~afterOk
                               THEN Result(FALSE, 0, "raised")
                               ELSE Result(TRUE, ran.count, "done")
            /\ operation_limits' =
                  UpdateOperationLimits(operation_limits, carried /\ ran.count > 0,
                                        QuotaOf[req], Row(1, 1))
    /\ friendPc' = "leave"
    /\ UNCHANGED <<friend_gid, friendOp, friendLands, friendTargets, probed>>

\* "finally: await self.leave_friend_farm(gid)", which swallows Exceptions
FriendLeave(ok) ==
    /\ UNCHANGED notFriendVars
    /\ friendPc = "leave"
    /\ friendLog' = Append(friendLog, Req("Leave", friend_gid, ok))
    /\ friendPc' = "returned"
    /\ UNCHANGED <<friend_gid, friendOp, friendLands, operation_limits, friendTargets, probed,
                   friendResult>>

FriendNext ==
    \/ \E ok \in BOOLEAN : FriendEnter(ok)
    \/ \E reply \in ProbeReplies : FriendCheck(reply)
    \/ \E batchOk, singleOk, afterOk, carried \in BOOLEAN :
          FriendMutate(batchOk, singleOk, afterOk, carried)
    \/ \E ok \in BOOLEAN : FriendLeave(ok)

\* ------------------------------------------- friend operation claims

\* the mutating requests a step sends
SentNow ==
    {i \in DOMAIN friendLog' \ DOMAIN friendLog : friendLog'[i].req \in DOMAIN QuotaOf}

\* C27: a friend operation sends a mutating request (steal, water, weed,
\* bug, put insects, put weeds) only when the CheckCanOperate probe was
\* answered with can_operate and the cached operation limits allow the
\* operation; and when the probe says the day's quota is used up the call
\* answers ok = true, count = 0.
C27_GatedByProbeAndLimits ==
    [][/\ \A i \in SentNow :
             /\ probed.answered /\ probed.can_operate
             /\ CanOperate(operation_limits, QuotaOf[friendLog'[i].req])
       /\ (probed'.answered /\ ~probed'.can_operate /\ ~probed.asked)
             => friendResult' = Result(TRUE, 0, "quota_exhausted")]_vars

\* ======================================================= persistence

\* saves one run makes
MaxSaves == 3

\* written by QFarmRuntimeManager._save_json_atomic
ManagerFiles == {"accounts", "settings", "runtime", "runtime_logs"}
\* written by QFarmStateStore._save_json
StoreFiles == {"owner_bindings", "whitelist"}
JsonFiles == ManagerFiles \cup StoreFiles

\* what a file holds: the whole JSON text of the n-th save, the beginning
\* of it, or nothing
Whole(n) == [text |-> "whole", of |-> n]
Part(n) == [text |-> "part", of |-> n]
Empty == [text |-> "empty", of |-> 0]
NoFile == [text |-> "absent", of |-> 0]

SaveInit ==
    /\ disk = [f \in JsonFiles |-> Whole(0)]
    /\ tmpFile = [f \in JsonFiles |-> NoFile]
    /\ savePc = "idle"
    /\ saving = "accounts"
    /\ saves = 0

\* the file the bytes of a save go to
WritesInPlace(f) == f \in StoreFiles

Target(f) == IF WritesInPlace(f) THEN "disk" ELSE "tmp"

Put(f, content) ==
    IF Target(f) = "disk"
    THEN disk' = [disk EXCEPT ![f] = content] /\ UNCHANGED tmpFile
    ELSE tmpFile' = [tmpFile EXCEPT ![f] = content] /\ UNCHANGED disk

\* _save_json: path.open("w"); _save_json_atomic: tmp.write_text opens tmp.
\* Opening for writing leaves the file empty.
SaveOpen(f) ==
    /\ UNCHANGED notSaveVars
    /\ savePc = "idle"
    /\ saves < MaxSaves
    /\ saves' = saves + 1
    /\ saving' = f
    /\ Put(f, Empty)
    /\ savePc' = "opened"

\* the first bytes of the text reach the file
SaveDump ==
    /\ UNCHANGED notSaveVars
    /\ savePc = "opened"
    /\ Put(saving, Part(saves))
    /\ savePc' = "dumping"
    /\ UNCHANGED <<saving, saves>>

\* the rest of the text reaches the file and the file is closed; that
\* is the end of _save_json
SaveClose ==
    /\ UNCHANGED notSaveVars
    /\ savePc = "dumping"
    /\ Put(saving, Whole(saves))
    /\ savePc' = IF WritesInPlace(saving) THEN "idle" ELSE "written"
    /\ UNCHANGED <<saving, saves>>

\* _save_json_atomic: tmp.replace(path)
SaveReplace ==
    /\ UNCHANGED notSaveVars
    /\ savePc = "written"
    /\ disk' = [disk EXCEPT ![saving] = tmpFile[saving]]
    /\ tmpFile' = [tmpFile EXCEPT ![saving] = NoFile]
    /\ savePc' = "idle"
    /\ UNCHANGED <<saving, saves>>

\* the process stops, at any point of a save or between saves
ProcessStops ==
    /\ UNCHANGED notSaveVars
    /\ savePc # "stopped"
    /\ savePc' = "stopped"
    /\ UNCHANGED <<disk, tmpFile, saving, saves>>

SaveNext ==
    \/ \E f \in JsonFiles : SaveOpen(f)
    \/ SaveDump
    \/ SaveClose
    \/ SaveReplace
    \/ ProcessStops

\* --------------------------------------------------- persistence claims

\* C29: wherever the process stops, every JSON file holds the whole text
\* of a save, the one before the save in progress or the new one, and is
\* never empty or cut short.
C29_FilesAlwaysWhole ==
    savePc = "stopped" =>
        \A f \in JsonFiles : disk[f].text = "whole" /\ disk[f].of \in 0..saves

\* =================================================== NotifyDispatcher

\* Notify frames that arrive
MaxEvents == 2
\* entries of one handler list
MaxHandlers == 1

EventTypes == {"LandsNotify", "ItemNotify"}
Handlers == {"h1", "h2"}

NoTables == [byType |-> <<>>, wild |-> <<>>]

NdInit ==
    /\ handlersByType = [t \in EventTypes |-> <<>>]
    /\ wildcardHandlers = <<>>
    /\ socketQ = <<>>
    /\ frames = 0
    /\ emitPc = "idle"
    /\ emitEv = 0
    /\ emitList = <<>>
    /\ emitIdx = 0
    /\ calls = <<>>
    /\ tablesAt = NoTables
    /\ emitted = {}

\* on(message_type, handler)
NdOn(message_type, handler) ==
    /\ UNCHANGED notNdVars
    /\ emitPc # "dead"
    /\ IF message_type = "*"
       THEN /\ Len(wildcardHandlers) < MaxHandlers
            /\ wildcardHandlers' = Append(wildcardHandlers, handler)
            /\ UNCHANGED handlersByType
       ELSE /\ Len(handlersByType[message_type]) < MaxHandlers
            /\ handlersByType' = [handlersByType EXCEPT ![message_type] = Append(@, handler)]
            /\ UNCHANGED wildcardHandlers
    /\ UNCHANGED <<socketQ, frames, emitPc, emitEv, emitList, emitIdx, calls, tablesAt,
                   emitted>>

\* off(message_type, handler): every entry that is the handler goes
NdOff(message_type, handler) ==
    /\ UNCHANGED notNdVars
    /\ emitPc # "dead"
    /\ IF message_type = "*"
       THEN /\ wildcardHandlers' = SelectSeq(wildcardHandlers, LAMBDA h : h # handler)
            /\ UNCHANGED handlersByType
       ELSE /\ handlersByType' =
                  [handlersByType EXCEPT
                      ![message_type] = SelectSeq(@, LAMBDA h : h # handler)]
            /\ UNCHANGED wildcardHandlers
    /\ UNCHANGED <<socketQ, frames, emitPc, emitEv, emitList, emitIdx, calls, tablesAt,
                   emitted>>

\* A Notify frame arrives on the socket; its body decodes to an event of
\* type message_type, or does not decode.
FrameArrives(message_type, decodes) ==
    /\ UNCHANGED notNdVars
    /\ emitPc # "dead"
    /\ frames < MaxEvents
    /\ frames' = frames + 1
    /\ socketQ' = Append(socketQ, [ev |-> frames + 1, type |-> message_type,
                                   decodes |-> decodes])
    /\ UNCHANGED <<handlersByType, wildcardHandlers, emitPc, emitEv, emitList, emitIdx,
                   calls, tablesAt, emitted>>

\* the receive loop reads the next frame only after _handle_binary, and
\* with it emit, has returned for the frame before
RecvLoopReadsAnyTime == emitPc # "dead"
RecvLoopReads == emitPc = "idle"

\* emit: handlers = list(self._handlers.get(message_type, [])), extended by
\* the wildcard handlers
EmitHandlersOfTypeOnly(message_type) == handlersByType[message_type]
EmitHandlers(message_type) == handlersByType[message_type] \o wildcardHandlers

\* the for loop of emit moves on from the handler at emitIdx
EmitAdvance ==
    IF emitIdx >= Len(emitList)
    THEN /\ emitPc' = "idle"
         /\ emitted' = emitted \cup {emitEv}
         /\ UNCHANGED emitIdx
    ELSE /\ emitPc' = "calling"
         /\ emitIdx' = emitIdx + 1
         /\ UNCHANGED emitted

\* The receive loop reads the next frame and _handle_binary runs up to the
\* first handler: a body that does not decode is dropped, else emit takes
\* its list of handlers under the dispatcher's lock.
EmitBegin ==
    /\ UNCHANGED notNdVars
    /\ RecvLoopReads
    /\ socketQ # <<>>
    /\ socketQ' = Tail(socketQ)
    /\ LET f == Head(socketQ) IN
       IF ~f.decodes
       THEN /\ emitPc' = "idle"
            /\ UNCHANGED <<emitEv, emitList, emitIdx, tablesAt, emitted>>
       ELSE /\ emitEv' = f.ev
            /\ emitList' = EmitHandlers(f.type)
            /\ tablesAt' = [byType |-> handlersByType[f.type], wild |-> wildcardHandlers]
            /\ IF EmitHandlers(f.type) = <<>>
               THEN /\ emitPc' = "idle"
                    /\ emitted' = emitted \cup {f.ev}
                    /\ emitIdx' = 0
               ELSE /\ emitPc' = "calling"
                    /\ emitIdx' = 1
                    /\ UNCHANGED emitted
    /\ UNCHANGED <<handlersByType, wildcardHandlers, frames, calls>>

\* what "ret = handler(message_type, payload)" does: returns a value,
\* raises an Exception, or returns a coroutine that emit awaits
HandlerKinds == {"returns", "raises", "coroutine"}

\* emit calls the handler at emitIdx.
HandlerRuns(kind) ==
    /\ UNCHANGED notNdVars
    /\ emitPc = "calling"
    /\ calls' = Append(calls, [ev |-> emitEv, handler |-> emitList[emitIdx],
                               awaited |-> kind = "coroutine"])
    /\ IF kind = "coroutine"
       THEN /\ emitPc' = "awaiting"
            /\ UNCHANGED <<emitIdx, emitted>>
       ELSE EmitAdvance
    /\ UNCHANGED <<handlersByType, wildcardHandlers, socketQ, frames, emitEv, emitList,
                   tablesAt>>

\* The awaited handler returns or raises an Exception.
HandlerDone(raises) ==
    /\ UNCHANGED notNdVars
    /\ emitPc = "awaiting"
    /\ EmitAdvance
    /\ UNCHANGED <<handlersByType, wildcardHandlers, socketQ, frames, emitEv, emitList,
                   calls, tablesAt>>

\* The session is stopped (by another task, or by the handler being
\* awaited): the receive task is cancelled where it waits, nothing more is
\* read, and _hard_close clears the dispatcher.
NdSessionStopped ==
    /\ UNCHANGED notNdVars
    /\ emitPc \in {"idle", "awaiting"}
    /\ emitPc' = "dead"
    /\ handlersByType' = [t \in EventTypes |-> <<>>]
    /\ wildcardHandlers' = <<>>
    /\ socketQ' = <<>>
    /\ UNCHANGED <<frames, emitEv, emitList, emitIdx, calls, tablesAt, emitted>>

NdNext ==
    \/ \E t \in EventTypes \cup {"*"}, h \in Handlers : NdOn(t, h)
    \/ \E t \in EventTypes \cup {"*"}, h \in Handlers : NdOff(t, h)
    \/ \E t \in EventTypes, d \in BOOLEAN : FrameArrives(t, d)
    \/ EmitBegin
    \/ \E k \in HandlerKinds : HandlerRuns(k)
    \/ \E r \in BOOLEAN : HandlerDone(r)
    \/ NdSessionStopped

\* ---------------------------------------------- NotifyDispatcher claims

\* the handlers invoked for frame e, in order
RECURSIVE CallsOfIn(_, _)
CallsOfIn(log, e) ==
    IF log = <<>>
    THEN <<>>
    ELSE IF Head(log).ev = e
    THEN <<Head(log).handler>> \o CallsOfIn(Tail(log), e)
    ELSE CallsOfIn(Tail(log), e)

CallsOf(e) == CallsOfIn(calls, e)

\* C20: handlers are invoked in the order the frames arrived, an event is
\* dispatched only when the handlers of every event before it have
\* finished, and when the dispatch of an event finishes the event has
\* reached every handler that was registered for its type and every "*"
\* handler, once per registration.
C20_OrderedDelivery ==
    /\ \A i, j \in DOMAIN calls : i < j => calls[i].ev <= calls[j].ev
    /\ \A i \in DOMAIN calls : calls[i].ev \in emitted \/ calls[i].ev = emitEv
    /\ emitPc \in {"calling", "awaiting"} => \A e \in emitted : e < emitEv
    /\ emitEv \in emitted => CallsOf(emitEv) = tablesAt.byType \o tablesAt.wild

\* the second event waits in the socket while a handler of the first is
\* awaited, and the first goes to a handler of its type and a "*" handler
C20_SecondEventQueued ==
    /\ emitPc = "awaiting"
    /\ emitEv = 1
    /\ Len(tablesAt.byType) >= 1
    /\ Len(tablesAt.wild) >= 1
    /\ emitIdx = 2
    /\ socketQ # <<>>
    /\ Head(socketQ).decodes

\* ============================================ AccountRuntime: the locks
\* One runtime.  Its farm operations are started by the scheduler loop, by
\* the tasks _on_notify creates for LandsNotify pushes, and by commands
\* (QFarmRuntimeManager.do_farm_operation); its friend cycles by the
\* scheduler loop only.  A command's do_friend_op takes no lock.

\* push tasks alive at once, commands in progress at once
MaxPushTasks == 2
MaxCommands == 2

Scheduler == [kind |-> "scheduler", n |-> 1]
PushTasks == [kind : {"push"}, n : 1..MaxPushTasks]
Commands == [kind : {"manual"}, n : 1..MaxCommands]
Workers == {Scheduler} \cup PushTasks \cup Commands

LockInit ==
    /\ farm_locked = FALSE
    /\ friend_locked = FALSE
    /\ opPc = [w \in Workers |-> "idle"]

LockQuiet == LockInit

InFarm == {w \in Workers : opPc[w] = "farm"}
InFriendCycle == {w \in Workers : opPc[w] = "friend"}

\* do_farm_operation: "async with self._farm_lock" around _do_farm_operation
TakesFarmLockNot(w) == w.kind # "push"
TakesFarmLock(w) == TRUE

\* _scheduler_loop: the farm check is due
SchedFarmDue ==
    /\ opPc[Scheduler] = "idle"
    /\ opPc' = [opPc EXCEPT ![Scheduler] = "waitFarm"]
    /\ UNCHANGED <<farm_locked, friend_locked>>
    /\ UNCHANGED notLockVars

\* _on_notify, LandsNotify: a task is created unless the lock is held
LandsNotify(w) ==
    /\ w \in PushTasks
    /\ opPc[w] = "idle"
    /\ ~farm_locked
    /\ opPc' = [opPc EXCEPT ![w] = "created"]
    /\ UNCHANGED <<farm_locked, friend_locked>>
    /\ UNCHANGED notLockVars

\* a command: QFarmRuntimeManager.do_farm_operation
ManualFarm(w) ==
    /\ w \in Commands
    /\ opPc[w] = "idle"
    /\ opPc' = [opPc EXCEPT ![w] = "waitFarm"]
    /\ UNCHANGED <<farm_locked, friend_locked>>
    /\ UNCHANGED notLockVars

\* do_farm_operation enters _do_farm_operation
FarmEnter(w) ==
    /\ opPc[w] \in {"created", "waitFarm"}
    /\ IF TakesFarmLock(w)
         THEN ~farm_locked /\ farm_locked' = TRUE
         ELSE farm_locked' = farm_locked
    /\ opPc' = [opPc EXCEPT ![w] = "farm"]
    /\ UNCHANGED friend_locked
    /\ UNCHANGED notLockVars

\* _do_farm_operation returns or raises: the lock is released either way
FarmExit(w) ==
    /\ opPc[w] = "farm"
    /\ farm_locked' = IF TakesFarmLock(w) THEN FALSE ELSE farm_locked
    /\ opPc' = [opPc EXCEPT ![w] = IF w = Scheduler THEN "afterFarm" ELSE "idle"]
    /\ UNCHANGED friend_locked
    /\ UNCHANGED notLockVars

\* _scheduler_loop: the friend check is due, or it is not and the loop sleeps
SchedFriendDue(due) ==
    /\ opPc[Scheduler] \in {"idle", "afterFarm"}
    /\ opPc' = [opPc EXCEPT ![Scheduler] = IF due THEN "waitFriend" ELSE "idle"]
    /\ due \/ opPc[Scheduler] = "afterFarm"
    /\ UNCHANGED <<farm_locked, friend_locked>>
    /\ UNCHANGED notLockVars

\* _auto_friend_cycle: "async with self._friend_lock"
FriendCycleEnter(w) ==
    /\ opPc[w] = "waitFriend"
    /\ ~friend_locked
    /\ friend_locked' = TRUE
    /\ opPc' = [opPc EXCEPT ![w] = "friend"]
    /\ UNCHANGED farm_locked
    /\ UNCHANGED notLockVars

FriendCycleExit(w) ==
    /\ opPc[w] = "friend"
    /\ friend_locked' = FALSE
    /\ opPc' = [opPc EXCEPT ![w] = "idle"]
    /\ UNCHANGED farm_locked
    /\ UNCHANGED notLockVars

\* a command: do_friend_op, begun and ended
ManualFriendOp(w) ==
    /\ w \in Commands
    /\ opPc[w] \in {"idle", "friendOp"}
    /\ opPc' = [opPc EXCEPT ![w] = IF opPc[w] = "idle" THEN "friendOp" ELSE "idle"]
    /\ UNCHANGED <<farm_locked, friend_locked>>
    /\ UNCHANGED notLockVars

LockNext ==
    \/ SchedFarmDue
    \/ \E w \in PushTasks : LandsNotify(w)
    \/ \E w \in Commands : ManualFarm(w)
    \/ \E w \in Workers : FarmEnter(w)
    \/ \E w \in Workers : FarmExit(w)
    \/ \E due \in BOOLEAN : SchedFriendDue(due)
    \/ \E w \in Workers : FriendCycleEnter(w)
    \/ \E w \in Workers : FriendCycleExit(w)
    \/ \E w \in Commands : ManualFriendOp(w)

\* C31: within one runtime at most one farm operation executes at a time,
\* whoever started it (scheduler, LandsNotify push, command), and at most one
\* friend cycle; the farm lock is held exactly while an operation executes.
C31_OneFarmOperationOneFriendCycle ==
    /\ Cardinality(InFarm) <= 1
    /\ Cardinality(InFriendCycle) <= 1
    /\ farm_locked <=> InFarm # {}
    /\ friend_locked <=> InFriendCycle # {}

\* a push-started farm operation and the scheduler's friend cycle overlap,
\* while a command waits for the farm lock
C31_FarmOverlapsFriendCycle ==
    /\ opPc[Scheduler] = "friend"
    /\ \E w \in PushTasks : opPc[w] = "farm"
    /\ \E w \in Commands : opPc[w] = "waitFarm"

\* ============================== AccountRuntime: notification tasks
\* _on_notify runs inside the session's receive loop, so it runs only while
\* the receive task is alive (sessState = "open").

BgInit ==
    /\ pushTask = "none"
    /\ sweepTask = "none"

BgRunning(t) == t \in {"waiting", "failing"}

\* LandsNotify with farm_push on: a task is created, unless the farm lock
\* is held (here: by an earlier push task); its first request is sent
OnLandsNotify ==
    /\ sessState = "open"
    /\ ~BgRunning(pushTask)
    /\ pushTask' = "waiting"
    /\ UNCHANGED sweepTask
    /\ UNCHANGED notBgVars

\* TaskInfoNotify with task_info and automation "task" on: a task is created
OnTaskInfoNotify ==
    /\ sessState = "open"
    /\ ~BgRunning(sweepTask)
    /\ sweepTask' = "waiting"
    /\ UNCHANGED pushTask
    /\ UNCHANGED notBgVars

\* GatewaySession.call as a task meets it: the request is sent when the
\* session is connected, and refused at once otherwise
AfterCall == IF SessionConnected THEN "waiting" ELSE "failing"

\* A task's call ends: with the reply (the receive loop is alive), or
\* with "websocket disconnected" or "request timeout" (it is not).  The
\* task ends, or, the failure swallowed, goes on to its next request.
BgStep(task, ends) ==
    IF ends \/ task = "failing" THEN "done" ELSE AfterCall

PushTaskStep(ends) ==
    /\ BgRunning(pushTask)
    /\ pushTask' = BgStep(pushTask, ends)
    /\ UNCHANGED sweepTask
    /\ UNCHANGED notBgVars

SweepTaskStep(ends) ==
    /\ BgRunning(sweepTask)
    /\ sweepTask' = BgStep(sweepTask, ends)
    /\ UNCHANGED pushTask
    /\ UNCHANGED notBgVars

StopNext ==
    \/ RtNext
    \/ OnLandsNotify
    \/ OnTaskInfoNotify
    \/ \E ends \in BOOLEAN : PushTaskStep(ends)
    \/ \E ends \in BOOLEAN : SweepTaskStep(ends)

\* stop() has returned and start() was not called since
StopReturned == rtStopped = "returned" /\ ~running /\ rtStarts > 0

\* C32: when stop() has returned, no task the runtime started is running
\* (loops, invite task, push-started farm run, task sweep) and the session
\* is closed.
C32_StopLeavesNothingRunning ==
    StopReturned
    => /\ ~loops
       /\ inviteTask # "running"
       /\ ~BgRunning(pushTask)
       /\ ~BgRunning(sweepTask)
       /\ sessState = "none"

\* what does hold of stop(): the tasks it keeps in _tasks and _invite_task
\* are over, the session is closed, and no task has a request in flight
C32_TrackedTasksOverSessionClosed ==
    StopReturned
    => /\ ~loops
       /\ inviteTask # "running"
       /\ sessState = "none"

\* ===================== QFarmRuntimeManager: concurrent calls, one account

\* start_account calls in progress at once, runtimes constructed, and calls
\* of stop_account, delete_account and stop()
MaxStartCallers == 2
MaxConstructed == 3
MaxHalts == 2

StartCallers == 1..MaxStartCallers
Instances == 1..MaxConstructed

RaceInit ==
    /\ start_lock = 0
    /\ starterPc = [c \in StartCallers |-> "idle"]
    /\ callRt = [c \in StartCallers |-> 0]
    /\ callAttempt = [c \in StartCallers |-> 0]
    /\ callBuilt = [c \in StartCallers |-> 0]
    /\ foundEntry = [c \in StartCallers |-> FALSE]
    /\ entry = 0
    /\ instances = [r \in Instances |-> "none"]
    /\ hasRecord = TRUE
    /\ statusRow = "none"
    /\ constructed = 0
    /\ halts = 0
    /\ deletedOk = FALSE

\* the runtime has live tasks or an open socket
Live(r) == instances[r] \in {"login", "bag", "started", "husk"}

\* the session's receive task is alive
RecvAlive(r) == instances[r] \in {"login", "bag", "started"}

\* "async with lock": the lock is free
LockFreeNot == TRUE
LockFree == start_lock = 0

\* start_account is called and reaches "async with lock"
CallStartAccount(c) ==
    /\ starterPc[c] = "idle"
    /\ starterPc' = [starterPc EXCEPT ![c] = "waitLock"]
    /\ UNCHANGED <<start_lock, callRt, callAttempt, callBuilt, foundEntry, entry, instances,
                   hasRecord, statusRow, constructed, halts, deletedOk>>
    /\ UNCHANGED notRaceVars

\* the head of one pass of the attempt loop: the status row is patched, a
\* runtime is constructed and registered, "await runtime.start()" begins
Construct(c, k) ==
    /\ constructed' = constructed + 1
    /\ instances' = [instances EXCEPT ![constructed + 1] = "login"]
    /\ entry' = constructed + 1
    /\ callRt' = [callRt EXCEPT ![c] = constructed + 1]
    /\ callBuilt' = [callBuilt EXCEPT ![c] = @ + 1]
    /\ callAttempt' = [callAttempt EXCEPT ![c] = k]
    /\ statusRow' = IF k = 1 THEN "starting" ELSE "retrying"
    /\ starterPc' = [starterPc EXCEPT ![c] = "starting"]

\* the lock is acquired; up to the first suspension inside it
EnterStartLock(c) ==
    /\ starterPc[c] = "waitLock"
    /\ LockFree
    /\ entry = 0 /\ hasRecord => constructed < MaxConstructed
    /\ IF entry # 0
       THEN /\ statusRow' = "running"
            /\ foundEntry' = [foundEntry EXCEPT ![c] = TRUE]
            /\ starterPc' = [starterPc EXCEPT ![c] = "returned"]
            /\ UNCHANGED <<start_lock, callRt, callAttempt, callBuilt, entry, instances,
                           constructed>>
       ELSE IF ~hasRecord
       THEN /\ starterPc' = [starterPc EXCEPT ![c] = "raised"]
            /\ UNCHANGED <<start_lock, callRt, callAttempt, callBuilt, foundEntry, entry,
                           instances, statusRow, constructed>>
       ELSE /\ start_lock' = c
            /\ Construct(c, 1)
            /\ UNCHANGED foundEntry
    /\ UNCHANGED <<hasRecord, halts, deletedOk>>
    /\ UNCHANGED notRaceVars

\* _connect_and_login: the login reply has come, get_bag is sent
LoginReplied(c) ==
    /\ starterPc[c] = "starting"
    /\ instances[callRt[c]] = "login"
    /\ instances' = [instances EXCEPT ![callRt[c]] = "bag"]
    /\ UNCHANGED <<start_lock, starterPc, callRt, callAttempt, callBuilt, foundEntry, entry,
                   hasRecord, statusRow, constructed, halts, deletedOk>>
    /\ UNCHANGED notRaceVars

\* "await runtime.start()" returns: get_bag has ended (its failure is
\* swallowed), the invite task is created, and the loops are created, which
\* end at once when stop() has cleared self.running meanwhile
StartReturned(c) ==
    /\ starterPc[c] = "starting"
    /\ instances[callRt[c]] \in {"bag", "haltedBag"}
    /\ instances' = [instances EXCEPT
                       ![callRt[c]] = IF @ = "bag" THEN "started" ELSE "husk"]
    /\ statusRow' = "running"
    /\ starterPc' = [starterPc EXCEPT ![c] = "returned"]
    /\ start_lock' = IF start_lock = c THEN 0 ELSE start_lock
    /\ UNCHANGED <<callRt, callAttempt, callBuilt, foundEntry, entry, hasRecord,
                   constructed, halts, deletedOk>>
    /\ UNCHANGED notRaceVars

\* "await runtime.start()" raises at the login step, or because stop() has
\* closed the session under it: the except branch of the attempt loop
StartRaised(c, failure) ==
    /\ starterPc[c] = "starting"
    /\ \/ instances[callRt[c]] = "login" /\ failure \in StartFailures
       \/ instances[callRt[c]] = "halted" /\ failure.text = ErrDisconnected
    /\ instances' = [instances EXCEPT ![callRt[c]] = "stopped"]
    /\ IF RecvAlive(callRt[c]) /\ RuntimeStopCancelled(failure)
       THEN /\ starterPc' = [starterPc EXCEPT ![c] = "cancelled"]
            /\ start_lock' = IF start_lock = c THEN 0 ELSE start_lock
            /\ UNCHANGED <<entry, statusRow>>
       ELSE LET error == NormalizeStartError(failure.text)
                can_retry == /\ callAttempt[c] < StartRetryMaxAttempts
                             /\ IsRetryableStartError(error)
                             /\ constructed < MaxConstructed
            IN
            /\ entry' = 0
            /\ statusRow' = IF can_retry THEN "retrying" ELSE "failed"
            /\ starterPc' = [starterPc EXCEPT ![c] = IF can_retry THEN "sleeping" ELSE "raised"]
            /\ start_lock' = IF ~can_retry /\ start_lock = c THEN 0 ELSE start_lock
    /\ UNCHANGED <<callRt, callAttempt, callBuilt, foundEntry, hasRecord, constructed,
                   halts, deletedOk>>
    /\ UNCHANGED notRaceVars

\* "await asyncio.sleep(delay)" returns and the next pass begins
RetrySleepOver(c) ==
    /\ starterPc[c] = "sleeping"
    /\ constructed < MaxConstructed
    /\ Construct(c, callAttempt[c] + 1)
    /\ UNCHANGED <<start_lock, foundEntry, hasRecord, halts, deletedOk>>
    /\ UNCHANGED notRaceVars

\* AccountRuntime.stop() as it leaves a runtime
Halted(state) ==
    CASE state = "login" -> "halted"
      [] state = "bag" -> "haltedBag"
      [] state = "started" -> "stopped"
      [] OTHER -> state

\* stop_account: the runtime in the registry, if any, is stopped, the entry
\* popped and the status row set, also when runtime.stop() raises
StopAccountNow ==
    /\ instances' = IF entry = 0 THEN instances
                    ELSE [instances EXCEPT ![entry] = Halted(@)]
    /\ entry' = 0
    /\ statusRow' = "stopped"

StopAccountRaises == entry # 0 /\ RecvAlive(entry)

StopAccountCall ==
    /\ halts < MaxHalts
    /\ hasRecord
    /\ halts' = halts + 1
    /\ StopAccountNow
    /\ UNCHANGED <<start_lock, starterPc, callRt, callAttempt, callBuilt, foundEntry,
                   hasRecord, constructed, deletedOk>>
    /\ UNCHANGED notRaceVars

\* QFarmRuntimeManager.stop(): stop_account for every id of the registry
ManagerStopCall ==
    /\ halts < MaxHalts
    /\ entry # 0
    /\ halts' = halts + 1
    /\ StopAccountNow
    /\ UNCHANGED <<start_lock, starterPc, callRt, callAttempt, callBuilt, foundEntry,
                   hasRecord, constructed, deletedOk>>
    /\ UNCHANGED notRaceVars

\* delete_account: stop_account, then, unless that raised, the record and
\* the status row are removed
DeleteAccountCall ==
    /\ halts < MaxHalts
    /\ hasRecord
    /\ halts' = halts + 1
    /\ instances' = IF entry = 0 THEN instances
                    ELSE [instances EXCEPT ![entry] = Halted(@)]
    /\ entry' = 0
    /\ IF StopAccountRaises
       THEN /\ statusRow' = "stopped"
            /\ UNCHANGED <<hasRecord, deletedOk>>
       ELSE /\ statusRow' = "none"
            /\ hasRecord' = FALSE
            /\ deletedOk' = TRUE
    /\ UNCHANGED <<start_lock, starterPc, callRt, callAttempt, callBuilt, foundEntry,
                   constructed>>
    /\ UNCHANGED notRaceVars

StartsNext ==
    \/ \E c \in StartCallers : CallStartAccount(c)
    \/ \E c \in StartCallers : EnterStartLock(c)
    \/ \E c \in StartCallers : LoginReplied(c)
    \/ \E c \in StartCallers : StartReturned(c)
    \/ \E c \in StartCallers, f \in StartFailures : StartRaised(c, f)
    \/ \E c \in StartCallers : RetrySleepOver(c)

RaceNext ==
    \/ StartsNext
    \/ StopAccountCall
    \/ ManagerStopCall
    \/ DeleteAccountCall

\* C33: concurrent start_account calls for one account are serialized: at no
\* time are two runtimes of the account live, at most one call is inside the
\* lock, and a call that found the account in the registry constructed no
\* runtime.
C33_StartsSerialized ==
    /\ Cardinality({r \in Instances : Live(r)}) <= 1
    /\ Cardinality({c \in StartCallers : starterPc[c] \in {"starting", "sleeping"}}) <= 1
    /\ \A c \in StartCallers : foundEntry[c] => callBuilt[c] = 0

\* one call waits for the lock while the other sleeps between attempts, and
\* one call has found the registry entry the other made
C33_SecondCallWaits ==
    \/ /\ starterPc[1] = "sleeping"
       /\ starterPc[2] = "waitLock"
    \/ /\ foundEntry[2]
       /\ starterPc[1] = "returned"
       /\ instances[entry] = "started"

\* C35: stop_account, delete_account or stop() running while a start_account
\* for the account is in progress never leaves a live runtime (tasks or an
\* open socket) that is not the registry's entry, nor a status row "running"
\* while the registry has no entry.
C35_NoOrphanRuntime ==
    /\ \A r \in Instances : Live(r) => entry = r
    /\ statusRow = "running" => entry # 0

\* C36: once delete_account has returned the account stays absent: no
\* registry entry, no live runtime, no status row.
C36_DeletedStaysAbsent ==
    deletedOk
    => /\ entry = 0
       /\ \A r \in Instances : ~Live(r)
       /\ statusRow = "none"

\* ============================ AccountRuntime: friend applications
\* The receive loop reads one frame at a time and awaits _handle_binary,
\* which for a notification awaits notify_dispatcher.emit, which awaits each
\* handler; _on_notify awaits friend.accept_friends(gids), a session call.

\* frames the gateway sends to one session
MaxFrames == 4

FriendApplication == "FriendApplicationReceivedNotify"
AcceptReply == "AcceptFriendsReply"
OtherFrames == {"ItemNotify", "HeartbeatReply"}

AcceptInit ==
    /\ inbox = <<>>
    /\ recvPc = "reading"
    /\ acceptCall = "none"
    /\ replySent = FALSE
    /\ handled = 0
    /\ arrived = 0

\* the gateway sends a frame: the notification (once), the reply to the
\* AcceptFriends request it has received, or something else
GatewaySends(frame) ==
    /\ arrived < MaxFrames
    /\ frame = FriendApplication
       => acceptCall = "none" /\ \A i \in 1..Len(inbox) : inbox[i] # frame
    /\ frame = AcceptReply => acceptCall = "waiting" /\ ~replySent
    /\ inbox' = Append(inbox, frame)
    /\ arrived' = arrived + 1
    /\ replySent' = (replySent \/ frame = AcceptReply)
    /\ UNCHANGED <<recvPc, acceptCall, handled>>
    /\ UNCHANGED notAcceptVars

\* _on_notify, FriendApplicationReceivedNotify with gids: whether the
\* handler awaits accept_friends itself (and with it the receive loop)
AwaitsAcceptInHandlerNot == FALSE
AwaitsAcceptInHandler == TRUE

\* _recv_loop reads the next frame and _handle_binary processes it
RecvFrame ==
    /\ recvPc = "reading"
    /\ inbox # <<>>
    /\ inbox' = Tail(inbox)
    /\ handled' = handled + 1
    /\ LET frame == Head(inbox) IN
       IF frame = FriendApplication
       THEN /\ acceptCall' = "waiting"
            /\ recvPc' = IF AwaitsAcceptInHandler THEN "inHandler" ELSE "reading"
       ELSE IF frame = AcceptReply
       THEN /\ acceptCall' = IF acceptCall = "waiting" THEN "replied" ELSE acceptCall
            /\ UNCHANGED recvPc
       ELSE UNCHANGED <<acceptCall, recvPc>>
    /\ UNCHANGED <<replySent, arrived>>
    /\ UNCHANGED notAcceptVars

\* wait_for(fut, timeout) of the AcceptFriends call runs out (a receive
\* loop that is reading has by then read what had arrived): the call
\* raises, emit swallows it, and the receive loop reads on
AcceptTimesOut ==
    /\ acceptCall = "waiting"
    /\ recvPc = "reading" => inbox = <<>>
    /\ acceptCall' = "timedOut"
    /\ recvPc' = "reading"
    /\ UNCHANGED <<inbox, replySent, handled, arrived>>
    /\ UNCHANGED notAcceptVars

AcceptNext ==
    \/ \E frame \in {FriendApplication, AcceptReply} \cup OtherFrames : GatewaySends(frame)
    \/ RecvFrame
    \/ AcceptTimesOut

\* C34: no handler waits on the receive path for a gateway reply: while the
\* AcceptFriends call waits the receive loop keeps reading, and the call
\* does not time out when the gateway has sent its reply.
C34_ReceivePathNeverWaits ==
    /\ acceptCall = "waiting" => recvPc = "reading"
    /\ acceptCall = "timedOut" => ~replySent

\* ================================ AccountRuntime: planting, fertilizing

\* lands a farm has here
MaxFertLands == 3

FertLands == 1..MaxFertLands
NormalFertilizer == 1011
OrganicFertilizer == 1012

\* lists of distinct lands, as analyze_lands and the trimming leave them
LandLists ==
    {lands \in UNION {[1..n -> FertLands] : n \in 1..MaxFertLands} :
        \A i, j \in DOMAIN lands : i # j => lands[i] # lands[j]}

FertInit ==
    /\ lands_to_plant \in LandLists
    /\ plantAnswers \in [FertLands -> BOOLEAN]
    /\ fertilizer \in {"normal", "organic", "both", "none"}
    /\ fertPc = "idle"
    /\ plantedCount = 0
    /\ plantSent = <<>>
    /\ fertSent = <<>>

FertQuiet ==
    /\ lands_to_plant = <<1>>
    /\ plantAnswers = [land \in FertLands |-> TRUE]
    /\ fertilizer = "both"
    /\ fertPc = "idle"
    /\ plantedCount = 0
    /\ plantSent = <<>>
    /\ fertSent = <<>>

\* FarmService.plant: one request per land; a failed one is skipped
\* ("except Exception: continue") and the successes are counted
PlantCount(lands) == Cardinality({i \in DOMAIN lands : plantAnswers[lands[i]]})

\* "planted_ids = lands_to_plant[:planted]"
PlantedIds(lands, count) == Prefix(lands, count)

\* "planted = await self.farm.plant(seed_id, lands_to_plant)"
FertPlant ==
    /\ fertPc = "idle"
    /\ plantedCount' = PlantCount(lands_to_plant)
    /\ plantSent' = lands_to_plant
    /\ fertPc' = IF plantedCount' > 0 THEN "planted" ELSE "returned"
    /\ UNCHANGED <<lands_to_plant, plantAnswers, fertilizer, fertSent>>
    /\ UNCHANGED notFertVars

\* FarmService.fertilize(land_ids, fertilizer_id): one request per land,
\* up to and with the first that fails (failAt; 0: none fails)
FertilizeRequests(land_ids, fertilizer_id, failAt) ==
    LET last == IF failAt = 0 THEN Len(land_ids) ELSE Min(failAt, Len(land_ids)) IN
    [i \in 1..last |-> [land |-> land_ids[i], fertilizer_id |-> fertilizer_id]]

\* "if mode in {normal, both}: ... fertilize(planted_ids, 1011)"
FertNormal(failAt) ==
    /\ fertPc = "planted"
    /\ fertSent' =
         IF fertilizer \in {"normal", "both"}
         THEN fertSent \o FertilizeRequests(PlantedIds(lands_to_plant, plantedCount),
                                            NormalFertilizer, failAt)
         ELSE fertSent
    /\ fertPc' = "normalDone"
    /\ UNCHANGED <<lands_to_plant, plantAnswers, fertilizer, plantedCount, plantSent>>
    /\ UNCHANGED notFertVars

\* "if mode in {organic, both}: ... fertilize(planted_ids, 1012)"
FertOrganic(failAt) ==
    /\ fertPc = "normalDone"
    /\ fertSent' =
         IF fertilizer \in {"organic", "both"}
         THEN fertSent \o FertilizeRequests(PlantedIds(lands_to_plant, plantedCount),
                                            OrganicFertilizer, failAt)
         ELSE fertSent
    /\ fertPc' = "returned"
    /\ UNCHANGED <<lands_to_plant, plantAnswers, fertilizer, plantedCount, plantSent>>
    /\ UNCHANGED notFertVars

FertNext ==
    \/ FertPlant
    \/ \E failAt \in 0..MaxFertLands : FertNormal(failAt)
    \/ \E failAt \in 0..MaxFertLands : FertOrganic(failAt)

\* C39: after auto-plant, Fertilize requests are sent only for lands whose
\* Plant request succeeded in this run, also when Plant requests for lands
\* in the middle of the list failed.
C39_FertilizeOnlyPlanted ==
    \A i \in DOMAIN fertSent :
        /\ \E j \in DOMAIN plantSent : plantSent[j] = fertSent[i].land
        /\ plantAnswers[fertSent[i].land]

\* what holds instead: as many lands are fertilized as were planted, and
\* they are lands of this run's list
FertilizedWithinList ==
    \A i \in DOMAIN fertSent :
        \E j \in 1..plantedCount : lands_to_plant[j] = fertSent[i].land

\* ============================== QFarmCommandRouter: bind, unbind, commands

\* account ids the counter may hand out here, and account writes
MaxBindIds == 2
MaxUpserts == 4

BindUsers == {"u1", "u2"}

\* new_id = str(data["nextId"])
BindIds == {ToString(n) : n \in 1..MaxBindIds}

\* A login code is written as the user it belongs to: a bind of user u passes
\* the code of u.
NoAccount == [code |-> NoId, updatedAt |-> 0]

BindInit ==
    /\ bindOwners = [u \in BindUsers |-> NoId]
    /\ bindAccountOwners = [a \in BindIds |-> NoId]
    /\ bindAccounts = [a \in BindIds |-> NoAccount]
    /\ bindNextId = 1
    /\ bindRuntimes = {}
    /\ bindPc = [u \in BindUsers |-> "idle"]
    /\ before_ids = [u \in BindUsers |-> {}]
    /\ existing_id = [u \in BindUsers |-> NoId]
    /\ bindClock = 0
    /\ operated = [u \in BindUsers |-> NoId]

BindQuiet == BindInit

\* the ids of get_accounts()["accounts"]
ExistingIds(accs) == {a \in BindIds : accs[a] # NoAccount}

\* state_store.bind_account(user_id, account_id) on the two maps: a ValueError,
\* and nothing written, when the account is held by another user
StoreBind(o, ao, uid, aid) ==
    IF OwnedByOther(ao, aid, uid)
    THEN [owners |-> o, accountOwners |-> ao]
    ELSE [owners |-> [o EXCEPT ![uid] = aid],
          accountOwners |-> [WithoutOldAccount(ao, o[uid], aid, uid) EXCEPT ![aid] = uid]]

\* state_store.unbind_account(user_id) on the two maps
StoreUnbind(o, ao, uid) ==
    [owners |-> [o EXCEPT ![uid] = NoId],
     accountOwners |-> IF o[uid] # NoId /\ ao[o[uid]] = uid
                       THEN [ao EXCEPT ![o[uid]] = NoId]
                       ELSE ao]

\* _bind_account_with_code up to the end of "await self.api.upsert_account":
\* the snapshot before_map, the unbinding of a binding whose account is gone,
\* and upsert_account, which writes the record and then starts the account
\* (a failed start is logged). With an existing binding the record is updated
\* and the account stopped first: stopping a registered runtime ends the call
\* with CancelledError, the record written and the registry entry popped.
BindUpsert(u, started) ==
    /\ UNCHANGED notBindVars
    /\ bindPc[u] = "idle"
    /\ bindClock < MaxUpserts
    /\ LET before == ExistingIds(bindAccounts)
           gone == bindOwners[u] # NoId /\ bindOwners[u] \notin before
           store == IF gone THEN StoreUnbind(bindOwners, bindAccountOwners, u)
                    ELSE [owners |-> bindOwners, accountOwners |-> bindAccountOwners]
           existing == store.owners[u]
           record == [code |-> u, updatedAt |-> bindClock + 1]
       IN
       /\ bindOwners' = store.owners
       /\ bindAccountOwners' = store.accountOwners
       /\ bindClock' = bindClock + 1
       /\ IF existing # NoId
          THEN /\ bindAccounts' = [bindAccounts EXCEPT ![existing] = record]
               /\ bindNextId' = bindNextId
               /\ IF existing \in bindRuntimes
                  THEN /\ bindRuntimes' = bindRuntimes \ {existing}
                       /\ UNCHANGED <<bindPc, before_ids, existing_id>>
                  ELSE /\ bindRuntimes' = IF started THEN bindRuntimes \cup {existing}
                                          ELSE bindRuntimes
                       /\ bindPc' = [bindPc EXCEPT ![u] = "upserted"]
                       /\ before_ids' = [before_ids EXCEPT ![u] = before]
                       /\ existing_id' = [existing_id EXCEPT ![u] = existing]
          ELSE /\ bindNextId <= MaxBindIds
               /\ LET new_id == ToString(bindNextId) IN
                  /\ bindAccounts' = [bindAccounts EXCEPT ![new_id] = record]
                  /\ bindRuntimes' = IF started THEN bindRuntimes \cup {new_id}
                                     ELSE bindRuntimes
               /\ bindNextId' = bindNextId + 1
               /\ bindPc' = [bindPc EXCEPT ![u] = "upserted"]
               /\ before_ids' = [before_ids EXCEPT ![u] = before]
               /\ existing_id' = [existing_id EXCEPT ![u] = NoId]
    /\ UNCHANGED operated

\* "candidates = [acc for acc in after_list if str(acc.get('id')) not in
\* before_ids]", and, when there is none, the accounts that have the code;
\* then "candidates.sort(key=updatedAt, reverse=True); created = candidates[0]".
\* NoId when there is no candidate.
CreatedAccount(accs, before, code) ==
    LET fresh == ExistingIds(accs) \ before
        candidates == IF fresh # {} THEN fresh
                      ELSE {a \in ExistingIds(accs) : accs[a].code = code}
    IN IF candidates = {} THEN NoId
       ELSE CHOOSE a \in candidates :
               \A b \in candidates : accs[b].updatedAt <= accs[a].updatedAt

\* _bind_account_with_code after upsert_account returned: with an existing
\* binding the account is fetched and bound again; without one the new account
\* is picked among the accounts that were not in before_map and is bound. A
\* missing account, no candidate, and the ValueError of bind_account end the
\* bind with nothing written.
BindFinish(u) ==
    /\ UNCHANGED notBindVars
    /\ bindPc[u] = "upserted"
    /\ LET target == IF existing_id[u] # NoId
                     THEN IF existing_id[u] \in ExistingIds(bindAccounts)
                          THEN existing_id[u] ELSE NoId
                     ELSE CreatedAccount(bindAccounts, before_ids[u], u)
           store == IF target = NoId
                    THEN [owners |-> bindOwners, accountOwners |-> bindAccountOwners]
                    ELSE StoreBind(bindOwners, bindAccountOwners, u, target)
       IN
       /\ bindOwners' = store.owners
       /\ bindAccountOwners' = store.accountOwners
    /\ bindPc' = [bindPc EXCEPT ![u] = "idle"]
    /\ before_ids' = [before_ids EXCEPT ![u] = {}]
    /\ existing_id' = [existing_id EXCEPT ![u] = NoId]
    /\ UNCHANGED <<bindAccounts, bindNextId, bindRuntimes, bindClock, operated>>

\* delete_account(account_id) of the manager. stop_account of a registered
\* runtime ends the call with CancelledError after the registry entry is
\* popped; an id without a record ends it with RuntimeError; otherwise the
\* record is removed, and "if not kept: data['nextId'] = 1".
DeleteRecord(a) ==
    IF a \in bindRuntimes
    THEN /\ bindRuntimes' = bindRuntimes \ {a}
         /\ UNCHANGED <<bindAccounts, bindNextId>>
    ELSE IF a \notin ExistingIds(bindAccounts)
    THEN UNCHANGED <<bindAccounts, bindNextId, bindRuntimes>>
    ELSE /\ bindAccounts' = [bindAccounts EXCEPT ![a] = NoAccount]
         /\ bindNextId' = IF ExistingIds(bindAccounts) \ {a} = {} THEN 1 ELSE bindNextId
         /\ UNCHANGED bindRuntimes

\* "qfarm 账号 解绑": delete_account of the bound account, an Exception of it
\* logged and ignored, then unbind_account. The CancelledError of a running
\* account is no Exception: it ends the command before unbind_account.
UnbindCommand(u) ==
    /\ UNCHANGED notBindVars
    /\ bindPc[u] = "idle"
    /\ bindOwners[u] # NoId
    /\ LET a == bindOwners[u]
           store == StoreUnbind(bindOwners, bindAccountOwners, u)
       IN
       /\ DeleteRecord(a)
       /\ bindOwners' = IF a \in bindRuntimes THEN bindOwners ELSE store.owners
       /\ bindAccountOwners' =
             IF a \in bindRuntimes THEN bindAccountOwners ELSE store.accountOwners
    /\ UNCHANGED <<bindPc, before_ids, existing_id, bindClock, operated>>

\* A Kickout notification of a running account: _on_runtime_kicked calls
\* delete_account on the receive task, which stop_account cancels; "except
\* Exception: return" does not catch that, so the record stays.
BindKickout(a) ==
    /\ UNCHANGED notBindVars
    /\ a \in bindRuntimes
    /\ DeleteRecord(a)
    /\ UNCHANGED <<bindOwners, bindAccountOwners, bindPc, before_ids, existing_id,
                   bindClock, operated>>

\* delete_account(account_id) called on the manager for an account it has
BindDeleteAccount(a) ==
    /\ UNCHANGED notBindVars
    /\ a \in ExistingIds(bindAccounts)
    /\ DeleteRecord(a)
    /\ UNCHANGED <<bindOwners, bindAccountOwners, bindPc, before_ids, existing_id,
                   bindClock, operated>>

\* start_account(account_id) of an account that is not running, e.g. the
\* automatic start of the manager
BindStartAccount(a) ==
    /\ UNCHANGED notBindVars
    /\ a \in ExistingIds(bindAccounts) \ bindRuntimes
    /\ bindRuntimes' = bindRuntimes \cup {a}
    /\ UNCHANGED <<bindOwners, bindAccountOwners, bindAccounts, bindNextId, bindPc,
                   before_ids, existing_id, bindClock, operated>>

\* A command of a bound user: _require_bound_account resolves the binding to
\* the account that has its id now, and unbinds when there is none. The
\* command then operates on that account.
RequireBoundAccount(u) ==
    /\ UNCHANGED notBindVars
    /\ bindPc[u] = "idle"
    /\ bindOwners[u] # NoId
    /\ IF bindOwners[u] \in ExistingIds(bindAccounts)
       THEN /\ operated' = [operated EXCEPT ![u] = bindAccounts[bindOwners[u]].code]
            /\ UNCHANGED <<bindOwners, bindAccountOwners>>
       ELSE /\ LET store == StoreUnbind(bindOwners, bindAccountOwners, u) IN
               /\ bindOwners' = store.owners
               /\ bindAccountOwners' = store.accountOwners
            /\ operated' = [operated EXCEPT ![u] = NoId]
    /\ UNCHANGED <<bindAccounts, bindNextId, bindRuntimes, bindPc, before_ids,
                   existing_id, bindClock>>

BindNext ==
    \/ \E u \in BindUsers, started \in BOOLEAN : BindUpsert(u, started)
    \/ \E u \in BindUsers : BindFinish(u)
    \/ \E u \in BindUsers : UnbindCommand(u)
    \/ \E a \in BindIds : BindKickout(a)
    \/ \E a \in BindIds : BindDeleteAccount(a)
    \/ \E a \in BindIds : BindStartAccount(a)
    \/ \E u \in BindUsers : RequireBoundAccount(u)

\* C40: a command of a user only ever operates on an account whose login code
\* is the one a bind of that user passed: whatever accounts were deleted
\* before, by the unbind command, a kickout or delete_account itself, the
\* binding of a user never resolves to an account made from the login code of
\* another user.
C40_CommandsOperateOnOwnAccount ==
    \A u \in BindUsers : operated[u] \in {NoId, u}

\* ====================================================== specifications

InitBind ==
    SessInit /\ LimQuiet /\ StoreInit /\ MgrQuiet /\ LifeInit /\ FleetInit /\ RtInit /\ NdInit
    /\ LoadQuiet /\ FarmQuiet /\ FriendQuiet /\ SaveInit /\ SchedInit0 /\ LockInit /\ BgInit
    /\ RaceInit /\ AcceptInit /\ FertQuiet /\ BindInit

\* binds, unbinds, deletions and commands of two users
SpecBind == InitBind /\ [][BindNext]_vars

InitFert ==
    SessInit /\ LimQuiet /\ StoreInit /\ MgrQuiet /\ LifeInit /\ FleetInit /\ RtInit /\ NdInit
    /\ LoadQuiet /\ FarmQuiet /\ FriendQuiet /\ SaveInit /\ SchedInit0 /\ LockInit /\ BgInit
    /\ RaceInit /\ AcceptInit /\ FertInit /\ BindQuiet

\* the plant call of _auto_plant and the fertilizing after it
SpecFert == InitFert /\ [][FertNext]_vars

InitAccept ==
    SessInit /\ LimQuiet /\ StoreInit /\ MgrQuiet /\ LifeInit /\ FleetInit /\ RtInit /\ NdInit
    /\ LoadQuiet /\ FarmQuiet /\ FriendQuiet /\ SaveInit /\ SchedInit0 /\ LockInit /\ BgInit
    /\ RaceInit /\ AcceptInit /\ FertQuiet /\ BindQuiet

\* the receive loop, the gateway's frames and the AcceptFriends call
SpecAccept == InitAccept /\ [][AcceptNext]_vars

InitRace ==
    SessInit /\ LimQuiet /\ StoreInit /\ MgrQuiet /\ LifeInit /\ FleetInit /\ RtInit /\ NdInit
    /\ LoadQuiet /\ FarmQuiet /\ FriendQuiet /\ SaveInit /\ SchedInit0 /\ LockInit /\ BgInit
    /\ RaceInit /\ AcceptInit /\ FertQuiet /\ BindQuiet

\* concurrent start_account calls for one account
SpecStarts == InitRace /\ [][StartsNext]_vars

\* the same with stop_account, delete_account and stop() running in between
SpecRace == InitRace /\ [][RaceNext]_vars

InitStop ==
    SessInit /\ LimQuiet /\ StoreInit /\ MgrQuiet /\ LifeInit /\ FleetInit /\ RtInit /\ NdInit
    /\ LoadQuiet /\ FarmQuiet /\ FriendQuiet /\ SaveInit /\ SchedInit0 /\ LockInit /\ BgInit
    /\ RaceInit /\ AcceptInit /\ FertQuiet /\ BindQuiet

\* one runtime: start(), stop(), the connection, and the tasks its notification
\* handler creates
SpecStop == InitStop /\ [][StopNext]_vars

InitLock ==
    SessInit /\ LimQuiet /\ StoreInit /\ MgrQuiet /\ LifeInit /\ FleetInit /\ RtInit /\ NdInit
    /\ LoadQuiet /\ FarmQuiet /\ FriendQuiet /\ SaveInit /\ SchedInit0 /\ LockInit /\ BgInit
    /\ RaceInit /\ AcceptInit /\ FertQuiet /\ BindQuiet

\* the workers of one runtime and its two locks
SpecLock == InitLock /\ [][LockNext]_vars

InitSched ==
    SessInit /\ LimQuiet /\ StoreInit /\ MgrQuiet /\ LifeInit /\ FleetInit /\ SchedRtInit
    /\ NdInit /\ LoadQuiet /\ FarmQuiet /\ FriendQuiet /\ SaveInit /\ SchedInit0
    /\ LockQuiet /\ BgInit /\ RaceInit /\ AcceptInit /\ FertQuiet /\ BindQuiet

\* the loops of a started runtime and the gateway going down and coming
\* back, nobody calling stop()
SpecSched == InitSched /\ [][SchedNext]_vars /\ SchedFairness

InitSave ==
    SessInit /\ LimQuiet /\ StoreInit /\ MgrQuiet /\ LifeInit /\ FleetInit /\ RtInit /\ NdInit
    /\ LoadQuiet /\ FarmQuiet /\ FriendQuiet /\ SaveInit /\ SchedInit0 /\ LockQuiet
    /\ BgInit /\ RaceInit /\ AcceptInit /\ FertQuiet /\ BindQuiet

\* saves of the JSON files, and the process stopping
SpecSave == InitSave /\ [][SaveNext]_vars

InitFriend ==
    SessInit /\ LimQuiet /\ StoreInit /\ MgrQuiet /\ LifeInit /\ FleetInit /\ RtInit /\ NdInit
    /\ LoadQuiet /\ FarmQuiet /\ FriendInit /\ SaveInit /\ SchedInit0 /\ LockQuiet /\ BgInit
    /\ RaceInit /\ AcceptInit /\ FertQuiet /\ BindQuiet

\* one call of do_friend_operation
SpecFriend == InitFriend /\ [][FriendNext]_vars

InitFarm ==
    SessInit /\ LimQuiet /\ StoreInit /\ MgrQuiet /\ LifeInit /\ FleetInit /\ RtInit /\ NdInit
    /\ LoadQuiet /\ FarmInit /\ FriendQuiet /\ SaveInit /\ SchedInit0 /\ LockQuiet /\ BgInit
    /\ RaceInit /\ AcceptInit /\ FertQuiet /\ BindQuiet

\* one farm operation in mode all, over the farms it may find
SpecFarm == InitFarm /\ [][FarmNext]_vars

InitPlant ==
    SessInit /\ LimQuiet /\ StoreInit /\ MgrQuiet /\ LifeInit /\ FleetInit /\ RtInit /\ NdInit
    /\ LoadQuiet /\ PlantInit /\ FriendQuiet /\ SaveInit /\ SchedInit0 /\ LockQuiet
    /\ BgInit /\ RaceInit /\ AcceptInit /\ FertQuiet /\ BindQuiet

\* one direct call of _auto_plant
SpecPlant == InitPlant /\ [][PlantNext]_vars

InitLoad ==
    SessInit /\ LimQuiet /\ StoreInit /\ MgrQuiet /\ LifeInit /\ FleetInit /\ RtInit /\ NdInit
    /\ LoadInit /\ FarmQuiet /\ FriendQuiet /\ SaveInit /\ SchedInit0 /\ LockQuiet /\ BgInit
    /\ RaceInit /\ AcceptInit /\ FertQuiet /\ BindQuiet

\* the constructor of the store over the bindings files it may find
SpecLoad == InitLoad /\ [][LoadNext]_vars

\* Each specification runs one component; the others stay as constructed.
InitSession == SessInit /\ LimQuiet /\ StoreInit /\ MgrQuiet /\ LifeInit /\ FleetInit /\ RtInit /\ NdInit /\ LoadQuiet /\ FarmQuiet
    /\ FriendQuiet /\ SaveInit /\ SchedInit0 /\ LockQuiet /\ BgInit /\ RaceInit
    /\ AcceptInit /\ FertQuiet /\ BindQuiet

SpecSession == InitSession /\ [][SessNext]_vars

InitLimiter == SessInit /\ LimInit /\ StoreInit /\ MgrQuiet /\ LifeInit /\ FleetInit /\ RtInit /\ NdInit /\ LoadQuiet /\ FarmQuiet
    /\ FriendQuiet /\ SaveInit /\ SchedInit0 /\ LockQuiet /\ BgInit /\ RaceInit
    /\ AcceptInit /\ FertQuiet /\ BindQuiet

SpecLimiter == InitLimiter /\ [][LimNext]_vars

\* A lease is released in the finally of the command that took it, and the
\* event loop resumes a waiter once what it waits for is free.
SpecLimiterFair ==
    /\ InitLimiter
    /\ [][LimNext]_vars
    /\ \A r \in Reqs :
          /\ WF_vars(LeaseRelease(r))
          /\ WF_vars(SemGranted(r))
          /\ WF_vars(AcctGranted(r))

InitStore == SessInit /\ LimQuiet /\ StoreInit /\ MgrQuiet /\ LifeInit /\ FleetInit /\ RtInit /\ NdInit /\ LoadQuiet /\ FarmQuiet
    /\ FriendQuiet /\ SaveInit /\ SchedInit0 /\ LockQuiet /\ BgInit /\ RaceInit
    /\ AcceptInit /\ FertQuiet /\ BindQuiet

SpecStore == InitStore /\ [][StoreNext]_vars

InitStart == SessInit /\ LimQuiet /\ StoreInit /\ MgrInit /\ LifeInit /\ FleetInit /\ RtInit /\ NdInit /\ LoadQuiet /\ FarmQuiet
    /\ FriendQuiet /\ SaveInit /\ SchedInit0 /\ LockQuiet /\ BgInit /\ RaceInit
    /\ AcceptInit /\ FertQuiet /\ BindQuiet

SpecStart == InitStart /\ [][MgrNext]_vars

InitLifecycle == SessInit /\ LimQuiet /\ StoreInit /\ MgrInit /\ LifeInit /\ FleetInit /\ RtInit /\ NdInit /\ LoadQuiet /\ FarmQuiet
    /\ FriendQuiet /\ SaveInit /\ SchedInit0 /\ LockQuiet /\ BgInit /\ RaceInit
    /\ AcceptInit /\ FertQuiet /\ BindQuiet

\* start_account and stop_account calls for one account, in any order
SpecLifecycle == InitLifecycle /\ [][LifeNext]_vars

InitFleet == SessInit /\ LimQuiet /\ StoreInit /\ MgrQuiet /\ LifeInit /\ FleetInit /\ RtInit /\ NdInit /\ LoadQuiet /\ FarmQuiet
    /\ FriendQuiet /\ SaveInit /\ SchedInit0 /\ LockQuiet /\ BgInit /\ RaceInit
    /\ AcceptInit /\ FertQuiet /\ BindQuiet

\* account creation, stopping and deletion over all accounts of one manager
SpecFleet == InitFleet /\ [][FleetNext]_vars

\* account creation and deletion, and the operations on the settings file
SpecSettings == InitFleet /\ [][SettingsNext]_vars

InitRuntime ==
    SessInit /\ LimQuiet /\ StoreInit /\ MgrQuiet /\ LifeInit /\ FleetInit /\ RtInit /\ NdInit /\ LoadQuiet /\ FarmQuiet
    /\ FriendQuiet /\ SaveInit /\ SchedInit0 /\ LockQuiet /\ BgInit /\ RaceInit
    /\ AcceptInit /\ FertQuiet /\ BindQuiet

\* starts and stops of one AccountRuntime
SpecRuntime == InitRuntime /\ [][RtNext]_vars

InitNotify ==
    SessInit /\ LimQuiet /\ StoreInit /\ MgrQuiet /\ LifeInit /\ FleetInit /\ RtInit /\ NdInit /\ LoadQuiet /\ FarmQuiet
    /\ FriendQuiet /\ SaveInit /\ SchedInit0 /\ LockQuiet /\ BgInit /\ RaceInit
    /\ AcceptInit /\ FertQuiet /\ BindQuiet

\* the dispatcher of one session: registrations, arriving frames, dispatch
SpecNotify == InitNotify /\ [][NdNext]_vars

====
